---- MODULE Spec2Model ----
(***************************************************************************)
(* A model of the prescription-analysis core:                              *)
(*   - VisionLLMClient.stream       (src/backend/vision_client.py)         *)
(*   - VisionChain.analyze_prescription / stream_with_mode                 *)
(*                                   (src/backend/chain.py)                *)
(*   - the prescription page and the human-resolution widgets              *)
(*                                   (src/frontend/...)                    *)
(* Three specifications share the variables:                               *)
(*   SpecStream   one call of VisionLLMClient.stream, line by line         *)
(*   SpecPipeline one run of analyze_prescription, fragment by fragment    *)
(*   Spec         one browser session: upload, human resolution, chat      *)
(* Text is a sequence of tokens (strings); concatenation is \o.            *)
(* Confidences are hundredths: 70 stands for 0.70.                         *)
(***************************************************************************)
EXTENDS Integers, Sequences, FiniteSets, TLC

VARIABLES
    \* ---- VisionLLMClient.stream ----
    status_code,   \* response.status_code
    lines,         \* response.iter_lines(): each line a sequence of tokens
    pos,           \* number of lines the for loop has taken so far
    yielded,       \* the fragments yielded so far, in order
    sstate,        \* "created" | "reading" | "done" | "raised"
    sexc,          \* the exception that left stream(), "none" if none
    api_key,       \* os.getenv("VISION_API_KEY")
    client,        \* "unconstructed" | "constructed" | "failed"
    posted,        \* TRUE once requests.post has been called
    \* ---- VisionChain.analyze_prescription ----
    pc,            \* position in analyze_prescription
    calls,         \* the requests sent to the client so far, in order
    wire,          \* fragments of the current stage still to arrive
    streamed,      \* per stage, every fragment its stream carried (history)
    response,      \* _call_non_streaming's local response
    validation,    \* local validation
    raw_ocr,       \* local raw_ocr
    extraction,    \* local extraction
    audit,         \* local audit
    result,        \* the returned dict, NoResult before the return
    pexc,          \* the exception that left analyze_prescription, "none" if none
    \* ---- VisionChain.stream_with_mode ----
    memory,        \* self.memory.messages
    tpc,           \* position of the generator stream_with_mode
    targs,         \* the arguments of the call
    sent,          \* the messages handed to vision_client.stream, <<>> before
    twire,         \* fragments of the reply still to arrive
    tout,          \* the fragments the generator has yielded so far
    full_response, \* local full_response
    \* ---- the Streamlit session ----
    prescription_id,  \* st.session_state.prescription_id, 0 for None
    active_analysis,  \* st.session_state.active_analysis
    chat_history,     \* st.session_state.chat_history
    uploads,          \* number of images uploaded so far
    origin,           \* history: what analyze_prescription said of the active analysis
    turn_origin,      \* history: origin when the current chat turn was submitted
    completed,        \* history: chat turns completed since the history was last loaded
    active_img_hash,  \* st.session_state.active_img_hash, 0 for None
    chain_prescription_id, \* st.session_state.vision_chain.prescription_id, 0 for None
    stored,           \* what the database holds of the prescription last loaded
    \* ---- several sessions of the application in one process ----
    histories,        \* the InMemoryChatMessageHistory objects, by address
    analyses,         \* the result dicts analyze_prescription returned, by address
    sessions          \* per session: its st.session_state and its script's position

streamVars == <<status_code, lines, pos, yielded, sstate, sexc, api_key, client, posted>>
pipeVars ==
    <<pc, calls, wire, streamed, response, validation, raw_ocr, extraction, audit, result, pexc>>
chatVars == <<memory, tpc, targs, sent, twire, tout, full_response>>
sessVars ==
    <<prescription_id, active_analysis, chat_history, uploads, origin, turn_origin, completed,
      active_img_hash, chain_prescription_id, stored>>
\* the chain object's own fields, and what else the turn and the page hold
selfVars == <<memory, chain_prescription_id>>
turnVars == <<tpc, targs, sent, twire, tout, full_response>>
pageVars ==
    <<prescription_id, active_analysis, chat_history, uploads, origin, turn_origin, completed,
      active_img_hash, stored>>
multiVars == <<histories, analyses, sessions>>
vars == <<streamVars, pipeVars, chatVars, sessVars, multiVars>>

(***************************************************************************)
(* Bounds of the model.                                                    *)
(***************************************************************************)
MaxLines == 3
MaxTurns == 2
MaxUploads == 2

(***************************************************************************)
(* Sequence helpers.                                                       *)
(***************************************************************************)
RECURSIVE SeqsUpTo(_, _)
SeqsUpTo(S, n) ==
    IF n = 0 THEN {<<>>}
    ELSE LET shorter == SeqsUpTo(S, n - 1)
         IN  shorter \cup {Append(s, x) : s \in {t \in shorter : Len(t) = n - 1}, x \in S}

RECURSIVE Concat(_)
Concat(ss) == IF ss = <<>> THEN <<>> ELSE Head(ss) \o Concat(Tail(ss))

IsPrefix(s, t) == Len(s) <= Len(t) /\ SubSeq(t, 1, Len(s)) = s

\* str.strip(): leading and trailing whitespace tokens removed
IsSpace(tok) == tok \in {" ", "\n"}

RECURSIVE LStrip(_)
LStrip(s) == IF s # <<>> /\ IsSpace(Head(s)) THEN LStrip(Tail(s)) ELSE s

RECURSIVE RStrip(_)
RStrip(s) ==
    IF s # <<>> /\ IsSpace(s[Len(s)]) THEN RStrip(SubSeq(s, 1, Len(s) - 1)) ELSE s

Strip(s) == RStrip(LStrip(s))

(***************************************************************************)
(* JSON values as Python sees them after json.loads.  A value is a record  *)
(* [jt, m, n, s]: jt its Python type, m the members of a dict (a function  *)
(* on keys) or of a list (a sequence), n the value of a number in          *)
(* hundredths (of a bool: 0 or 100), s the text of a str.                  *)
(***************************************************************************)
JNull == [jt |-> "null", m |-> <<>>, n |-> 0, s |-> <<>>]
JStr(text) == [jt |-> "str", m |-> <<>>, n |-> 0, s |-> text]
JNum(x) == [jt |-> "num", m |-> <<>>, n |-> x, s |-> <<>>]
JBool(b) == [jt |-> "bool", m |-> <<>>, n |-> IF b THEN 100 ELSE 0, s |-> <<>>]
JList(items) == [jt |-> "list", m |-> items, n |-> 0, s |-> <<>>]
JObj(members) == [jt |-> "dict", m |-> members, n |-> 0, s |-> <<>>]
NoMembers == [k \in {} |-> JNull]

\* The result of evaluating a Python expression: a value or an exception.
Ok(v) == [exc |-> "none", val |-> v]
Raise(e) == [exc |-> e, val |-> JNull]

\* x[key] for a str key
GetItem(x, key) ==
    CASE x.jt = "dict" -> IF key \in DOMAIN x.m THEN Ok(x.m[key]) ELSE Raise("KeyError")
      [] OTHER -> Raise("TypeError")

\* x[0]
GetIndex0(x) ==
    CASE x.jt = "list" -> IF Len(x.m) > 0 THEN Ok(x.m[1]) ELSE Raise("IndexError")
      [] x.jt = "str" -> IF Len(x.s) > 0 THEN Ok(JStr(<<x.s[1]>>)) ELSE Raise("IndexError")
      [] x.jt = "dict" -> Raise("KeyError")
      [] OTHER -> Raise("TypeError")

\* x.get(key, default)
DotGet(x, key, default) ==
    CASE x.jt = "dict" -> IF key \in DOMAIN x.m THEN Ok(x.m[key]) ELSE Ok(default)
      [] OTHER -> Raise("AttributeError")

\* x[key] = v on a dict
SetItem(x, key, v) ==
    JObj([k \in DOMAIN x.m \cup {key} |-> IF k = key THEN v ELSE x.m[k]])

\* bool(x)
Truthy(x) ==
    CASE x.jt = "str" -> Len(x.s) > 0
      [] x.jt = "list" -> Len(x.m) > 0
      [] x.jt = "dict" -> DOMAIN x.m # {}
      [] x.jt \in {"num", "bool"} -> x.n # 0
      [] OTHER -> FALSE

\* len(x)
PyLen(x) ==
    CASE x.jt = "str" -> Len(x.s)
      [] x.jt = "list" -> Len(x.m)
      [] x.jt = "dict" -> Cardinality(DOMAIN x.m)
      [] OTHER -> 0

\* whether len(x), or a comparison of x with a number, raises TypeError
HasLen(x) == x.jt \in {"str", "list", "dict"}
IsNumber(x) == x.jt \in {"num", "bool"}

\* v in x, for a list x
PyIn(v, x) == \E i \in 1..Len(x.m) : x.m[i] = v

\* x.append(v)
PyAppend(x, v) == JList(Append(x.m, v))

(***************************************************************************)
(* The SSE payloads the wire may carry after "data: ".                     *)
(***************************************************************************)
Event(content) ==
    JObj([choices |-> JList(<<JObj([delta |-> JObj([content |-> content])])>>)])

PayloadIds ==
    {"evA", "evB", "evNoContent", "evNullContent", "objEmpty", "choicesEmpty",
     "rootList", "choicesNull", "deltaNull"}

\* json.loads of one payload token
PayloadValue(id) ==
    CASE id = "evA" -> Event(JStr(<<"A">>))
      [] id = "evB" -> Event(JStr(<<"B">>))
      [] id = "evNoContent" -> JObj([choices |-> JList(<<JObj([delta |-> JObj(NoMembers)])>>)])
      [] id = "evNullContent" -> Event(JNull)
      [] id = "objEmpty" -> JObj(NoMembers)
      [] id = "choicesEmpty" -> JObj([choices |-> JList(<<>>)])
      [] id = "rootList" -> JList(<<>>)
      [] id = "choicesNull" -> JObj([choices |-> JNull])
      [] id = "deltaNull" -> JObj([choices |-> JList(<<JObj([delta |-> JNull])>>)])

(***************************************************************************)
(* The JSON texts the model may return in the stages of the pipeline.      *)
(***************************************************************************)
UnclearFlag == JStr(<<"Handwriting too unclear for safe AI interpretation">>)
NoCandidatesFlag == JStr(<<"No medically safe correction candidates available">>)
RejectedFlag == JStr(<<"Image rejected by safety gate.">>)
OtherFlag == JStr(<<"Dosage missing">>)

Validation(is_prescription, confidence) ==
    JObj([is_prescription |-> JBool(is_prescription), confidence |-> JNum(confidence),
          reason |-> JStr(<<"stated reason">>)])

Medicine(name, confidence) ==
    JObj([name |-> JStr(<<name>>), dosage |-> JStr(<<"500mg">>), confidence |-> JNum(confidence)])

Extraction(confidence) ==
    JObj([medicines |-> JList(<<Medicine("Amox", confidence)>>),
          overall_confidence |-> JNum(confidence)])

Ambiguity(options) ==
    JObj([medicine_name |-> JStr(<<"Amox">>), field |-> JStr(<<"name">>),
          issue |-> JStr(<<"unclear">>), options |-> JList(options)])

Audit(ambiguities, safety_flags) ==
    JObj([ambiguities |-> JList(ambiguities), safety_flags |-> JList(safety_flags),
          is_safe_to_display |-> JBool(TRUE)])

ValidationIds ==
    {"v_true_95", "v_true_70", "v_true_69", "v_false_95", "v_true_noconf", "v_noflag_95", "v_list"}

ExtractionIds == {"e_85", "e_70", "e_69", "e_50", "e_40", "e_noconf", "e_nomeds", "e_list"}

AuditIds ==
    {"a_none", "a_opts", "a_noopts", "a_mixed", "a_optsmissing", "a_noflagskey",
     "a_hasflag", "a_dupflag", "a_otherflag", "a_empty", "a_list"}

ScheduleIds == {"s_two"}

StageValue(id) ==
    CASE id = "s_two" -> JObj([schedule |-> JList(<<JStr(<<"08:00">>), JStr(<<"20:00">>)>>)])
      [] id = "v_true_95" -> Validation(TRUE, 95)
      [] id = "v_true_70" -> Validation(TRUE, 70)
      [] id = "v_true_69" -> Validation(TRUE, 69)
      [] id = "v_false_95" -> Validation(FALSE, 95)
      [] id = "v_true_noconf" -> JObj([is_prescription |-> JBool(TRUE)])
      [] id = "v_noflag_95" -> JObj([confidence |-> JNum(95)])
      [] id = "v_list" -> JList(<<>>)
      [] id = "e_85" -> Extraction(85)
      [] id = "e_70" -> Extraction(70)
      [] id = "e_69" -> Extraction(69)
      [] id = "e_50" -> Extraction(50)
      [] id = "e_40" -> Extraction(40)
      [] id = "e_noconf" -> JObj([medicines |-> JList(<<Medicine("Amox", 40)>>)])
      [] id = "e_nomeds" -> JObj([overall_confidence |-> JNum(85)])
      [] id = "e_list" -> JList(<<>>)
      [] id = "a_none" -> Audit(<<>>, <<>>)
      [] id = "a_opts" -> Audit(<<Ambiguity(<<JStr(<<"A">>), JStr(<<"B">>)>>)>>, <<>>)
      [] id = "a_noopts" -> Audit(<<Ambiguity(<<>>)>>, <<>>)
      [] id = "a_mixed" -> Audit(<<Ambiguity(<<>>), Ambiguity(<<JStr(<<"A">>)>>)>>, <<>>)
      [] id = "a_optsmissing" ->
            Audit(<<JObj([medicine_name |-> JStr(<<"Amox">>)])>>, <<OtherFlag>>)
      [] id = "a_noflagskey" -> JObj([ambiguities |-> JList(<<>>)])
      [] id = "a_hasflag" -> Audit(<<>>, <<UnclearFlag>>)
      [] id = "a_dupflag" -> Audit(<<>>, <<UnclearFlag, UnclearFlag>>)
      [] id = "a_otherflag" -> Audit(<<Ambiguity(<<>>)>>, <<OtherFlag>>)
      [] id = "a_empty" -> JObj(NoMembers)
      [] id = "a_list" -> JList(<<>>)

JsonIds == PayloadIds \cup ValidationIds \cup ExtractionIds \cup AuditIds \cup ScheduleIds

JsonValue(id) == IF id \in PayloadIds THEN PayloadValue(id) ELSE StageValue(id)

\* json.loads(text): the text must be one JSON value, whitespace around it allowed
json_loads(text) ==
    LET core == Strip(text)
    IN  IF Len(core) = 1 /\ core[1] \in JsonIds
        THEN Ok(JsonValue(core[1]))
        ELSE Raise("JSONDecodeError")

\* json.dumps(value): the text json.loads reads back as value
json_dumps(value) == [dumped |-> value]

\* The lines response.iter_lines() may produce.
LineKinds ==
    {<<>>,                               \* keep-alive blank line
     <<"event: ping">>,                  \* no "data: " prefix
     <<"data:", "evA">>,                 \* "data:" without the space
     <<"data: ", "[DONE]">>,
     <<"data: ", "[DONE]", " ">>,        \* [DONE] with trailing whitespace
     <<"data: ", "{oops">>}              \* not JSON
    \cup {<<"data: ", id>> : id \in PayloadIds}

StatusCodes == {200, 201, 500}

(***************************************************************************)
(* VisionLLMClient.stream: the body of the for loop for one line.          *)
(* The outcome says what the generator does with the line.                 *)
(***************************************************************************)
Skip == [act |-> "continue", frag |-> <<>>, exc |-> "none"]
Break == [act |-> "break", frag |-> <<>>, exc |-> "none"]
Yield(text) == [act |-> "yield", frag |-> text, exc |-> "none"]
Propagate(e) == [act |-> "raise", frag |-> <<>>, exc |-> e]

\* chunk["choices"][0]["delta"].get("content", "")
ExtractContent(chunk) ==
    LET choices == GetItem(chunk, "choices")
    IN  IF choices.exc # "none" THEN choices
        ELSE LET first == GetIndex0(choices.val)
             IN  IF first.exc # "none" THEN first
                 ELSE LET delta == GetItem(first.val, "delta")
                      IN  IF delta.exc # "none" THEN delta
                          ELSE DotGet(delta.val, "content", JStr(<<>>))

\* except (json.JSONDecodeError, KeyError, IndexError): continue
CaughtByStream == {"JSONDecodeError", "KeyError", "IndexError"}

\* the try block: parse the payload and extract the content
ParseAndExtract(json_str) ==
    LET chunk == json_loads(json_str)
        content == IF chunk.exc # "none" THEN chunk ELSE ExtractContent(chunk.val)
    IN  IF content.exc \in CaughtByStream THEN Skip
        ELSE IF content.exc # "none" THEN Propagate(content.exc)
        ELSE IF Truthy(content.val) THEN Yield(content.val.s)
        ELSE Skip

\* the check for the stream end signal
EndSignal(json_str) == Strip(json_str) = <<"[DONE]">>

\* mutant: the end signal is skipped like any other line
HandleLineNoBreak(line) ==
    IF line = <<>> THEN Skip
    ELSE IF Head(line) # "data: " THEN Skip
    ELSE LET json_str == Tail(line)
         IN  IF EndSignal(json_str) THEN Skip
             ELSE ParseAndExtract(json_str)

HandleLine(line) ==
    IF line = <<>> THEN Skip
    ELSE IF Head(line) # "data: " THEN Skip
    ELSE LET json_str == Tail(line)
         IN  IF EndSignal(json_str) THEN Break
             ELSE ParseAndExtract(json_str)

(***************************************************************************)
(* VisionLLMClient.stream as a generator: one action per resumption.       *)
(***************************************************************************)
\* os.getenv returns None for a variable that is not set
NoEnv == [isset |-> FALSE, val |-> <<>>]
EnvStr(v) == [isset |-> TRUE, val |-> v]
ApiKeys == {NoEnv, EnvStr(<<>>), EnvStr(<<"sk-1">>)}

\* mutant: only an unset variable counts as missing
KeyMissingUnsetOnly(k) == ~k.isset

\* not self.api_key
KeyMissing(k) == ~k.isset \/ k.val = <<>>

InitStream ==
    /\ status_code \in StatusCodes
    /\ lines \in SeqsUpTo(LineKinds, MaxLines)
    /\ pos = 0
    /\ yielded = <<>>
    /\ sstate = "created"
    /\ sexc = "none"
    /\ api_key \in ApiKeys
    /\ client = "unconstructed"
    /\ posted = FALSE

\* VisionLLMClient.__init__, which VisionChain.__init__ calls: a ValueError
\* leaves both constructors and no object is bound
Construct ==
    /\ client = "unconstructed"
    /\ client' = IF KeyMissing(api_key) THEN "failed" ELSE "constructed"
    /\ UNCHANGED <<status_code, lines, pos, yielded, sstate, sexc, api_key, posted>>

\* self.client.stream(...): requests.post and the status check
StreamOpen ==
    /\ client = "constructed"
    /\ sstate = "created"
    /\ posted' = TRUE
    /\ IF status_code # 200
       THEN sstate' = "raised" /\ sexc' = "ValueError"
       ELSE sstate' = "reading" /\ sexc' = "none"
    /\ UNCHANGED <<status_code, lines, pos, yielded, api_key, client>>

\* one iteration of for line in response.iter_lines()
StreamLine ==
    /\ sstate = "reading"
    /\ pos < Len(lines)
    /\ LET out == HandleLine(lines[pos + 1])
       IN  /\ pos' = pos + 1
           /\ yielded' = IF out.act = "yield" THEN Append(yielded, out.frag) ELSE yielded
           /\ sstate' = CASE out.act = "break" -> "done"
                           [] out.act = "raise" -> "raised"
                           [] OTHER -> "reading"
           /\ sexc' = out.exc
    /\ UNCHANGED <<status_code, lines, api_key, client, posted>>

\* iter_lines() is exhausted: the generator returns
StreamEnd ==
    /\ sstate = "reading"
    /\ pos = Len(lines)
    /\ sstate' = "done"
    /\ UNCHANGED <<status_code, lines, pos, yielded, sexc, api_key, client, posted>>

(***************************************************************************)
(* VisionChain.analyze_prescription: the pure parts.                       *)
(***************************************************************************)
GateThreshold == 70
ClearThreshold == 70

Fence(tok) == tok \in {"<fence>json", "<fence>"}

\* text.strip().replace(<fence>json, "").replace(<fence>, ""), <fence> being three backticks
clean_json_response(text) == SelectSeq(Strip(text), LAMBDA tok : ~Fence(tok))

FallbackValidation ==
    JObj([is_prescription |-> JBool(FALSE), confidence |-> JNum(0),
          reason |-> JStr(<<"Classification failed">>)])

FallbackSchedule == JObj([schedule |-> JList(<<>>)])

FallbackExtraction == JObj([medicines |-> JList(<<>>), overall_confidence |-> JNum(0)])

FallbackAudit ==
    JObj([ambiguities |-> JList(<<>>), safety_flags |-> JList(<<>>),
          is_safe_to_display |-> JBool(FALSE)])

\* mutant: a text that does not decode is taken as JSON null
DecodeOrNull(text, fallback) ==
    LET decoded == json_loads(clean_json_response(text))
    IN  IF decoded.exc = "none" THEN decoded.val ELSE JNull

\* try: json.loads(self._clean_json_response(text))  except: fallback
DecodeOr(text, fallback) ==
    LET decoded == json_loads(clean_json_response(text))
    IN  IF decoded.exc = "none" THEN decoded.val ELSE fallback

\* mutant: the gate compares with <= 0.7
GateOutcomeInclusive(v) ==
    LET flag == DotGet(v, "is_prescription", JNull)
    IN  IF flag.exc # "none" THEN [exc |-> flag.exc, blocked |-> FALSE]
        ELSE IF ~Truthy(flag.val) THEN [exc |-> "none", blocked |-> TRUE]
        ELSE LET conf == DotGet(v, "confidence", JNum(0)).val
             IN  IF ~IsNumber(conf) THEN [exc |-> "TypeError", blocked |-> FALSE]
                 ELSE [exc |-> "none", blocked |-> conf.n <= GateThreshold]

\* mutant: the gate checks the confidence only
GateOutcomeConfidenceOnly(v) ==
    LET conf == DotGet(v, "confidence", JNum(0))
    IN  IF conf.exc # "none" THEN [exc |-> conf.exc, blocked |-> FALSE]
        ELSE IF ~IsNumber(conf.val) THEN [exc |-> "TypeError", blocked |-> FALSE]
        ELSE [exc |-> "none", blocked |-> conf.val.n < GateThreshold]

\* not validation.get("is_prescription") or validation.get("confidence", 0) < 0.7
GateOutcome(v) ==
    LET flag == DotGet(v, "is_prescription", JNull)
    IN  IF flag.exc # "none" THEN [exc |-> flag.exc, blocked |-> FALSE]
        ELSE IF ~Truthy(flag.val) THEN [exc |-> "none", blocked |-> TRUE]
        ELSE LET conf == DotGet(v, "confidence", JNum(0)).val
             IN  IF ~IsNumber(conf) THEN [exc |-> "TypeError", blocked |-> FALSE]
                 ELSE [exc |-> "none", blocked |-> conf.n < GateThreshold]

\* the dict returned when the gate blocks
RejectionResult(v) ==
    [validation |-> v,
     extraction |-> JObj([medicines |-> JList(<<>>), overall_confidence |-> JNum(0)]),
     audit |-> JObj([ambiguities |-> JList(<<>>), safety_flags |-> JList(<<RejectedFlag>>),
                     is_safe_to_display |-> JBool(FALSE)]),
     raw_ocr |-> <<>>]

\* if flag not in audit["safety_flags"]: audit["safety_flags"].append(flag)
AddFlag(a, flag) ==
    IF PyIn(flag, a.m["safety_flags"]) THEN a
    ELSE SetItem(a, "safety_flags", PyAppend(a.m["safety_flags"], flag))

\* the else branch of the classification: the two fixed flags
AddUnresolvableFlags(a) ==
    LET with_key == IF "safety_flags" \in DOMAIN a.m THEN a
                    ELSE SetItem(a, "safety_flags", JList(<<>>))
    IN  AddFlag(AddFlag(with_key, UnclearFlag), NoCandidatesFlag)

\* len(a.get("options", [])) > 0
HasOptions(a) == PyLen(DotGet(a, "options", JList(<<>>)).val) > 0

\* mutant: any ambiguity makes the run clarifiable, with or without options
ClarifiableNonEmpty(ambiguities) == PyLen(ambiguities) > 0

\* len(ambiguities) > 0 and any(len(a.get("options", [])) > 0 for a in ambiguities)
Clarifiable(ambiguities) ==
    /\ PyLen(ambiguities) > 0
    /\ \E i \in 1..Len(ambiguities.m) : HasOptions(ambiguities.m[i])

\* DETERMINE AMBIGUITY STATE: the state and the audit dict after the step
ClassifyStep(e, a) ==
    LET confidence == DotGet(e, "overall_confidence", JNum(100))
        ambiguities == DotGet(a, "ambiguities", JList(<<>>)).val
    IN  IF confidence.exc # "none"
        THEN [exc |-> confidence.exc, state |-> "", audit |-> a]
        ELSE IF ~IsNumber(confidence.val) \/ ~HasLen(ambiguities)
        THEN [exc |-> "TypeError", state |-> "", audit |-> a]
        ELSE IF confidence.val.n >= ClearThreshold
        THEN [exc |-> "none", state |-> "CLEAR", audit |-> a]
        ELSE IF Clarifiable(ambiguities)
        THEN [exc |-> "none", state |-> "CLARIFIABLE", audit |-> a]
        ELSE [exc |-> "none", state |-> "UNRESOLVABLE", audit |-> AddUnresolvableFlags(a)]

\* the dict returned after classification
FinalResult(v, e, a, ocr, state) ==
    [validation |-> v, extraction |-> e, audit |-> a, raw_ocr |-> ocr,
     ambiguity_state |-> state]

NoResult == [pending |-> TRUE]

\* lines 92-123: the audit text is decoded, validation attached, the run classified
Conclude(v, e, ocr, audit_text) ==
    LET a == DecodeOr(audit_text, FallbackAudit)
    IN  IF a.jt # "dict"
        THEN [exc |-> "TypeError", audit |-> a, result |-> NoResult]
        ELSE LET cls == ClassifyStep(e, SetItem(a, "validation", v))
             IN  IF cls.exc # "none"
                 THEN [exc |-> cls.exc, audit |-> cls.audit, result |-> NoResult]
                 ELSE [exc |-> "none", audit |-> cls.audit,
                       result |-> FinalResult(v, e, cls.audit, ocr, cls.state)]

\* analyze_prescription as a function of the four texts the model returns
AnalyzeOutcome(validation_text, ocr_text, normalize_text, audit_text) ==
    LET v == DecodeOr(validation_text, FallbackValidation)
        gate == GateOutcome(v)
    IN  IF gate.exc # "none" THEN [exc |-> gate.exc, result |-> NoResult]
        ELSE IF gate.blocked THEN [exc |-> "none", result |-> RejectionResult(v)]
        ELSE LET end == Conclude(v, DecodeOr(normalize_text, FallbackExtraction),
                                 ocr_text, audit_text)
             IN  [exc |-> end.exc, result |-> end.result]

(***************************************************************************)
(* The requests of the pipeline and the texts the model may stream back.   *)
(***************************************************************************)
Stages == <<"validation", "ocr", "normalize", "audit">>
StageSet == {Stages[i] : i \in 1..Len(Stages)}

\* one request of _call_non_streaming: the stage's prompt, whether the image
\* is attached, and what the user query's f-string embeds
Request(stage, image, ocr, json) ==
    [stage |-> stage, image |-> image, ocr |-> ocr, json |-> json]

NoJson == json_dumps(JNull)

JsonTexts(ids) ==
    {<<id>> : id \in ids} \cup {<<"<fence>json", id, "<fence>">> : id \in ids}
        \cup {<<"Sorry,", "no JSON">>, <<>>}

OcrTexts ==
    {<<"Amox", " ", "500mg">>, <<"[UNCLEAR]">>, <<>>, <<" ", "<fence>json", "e_ok", "<fence>">>}

StageTexts(stage) ==
    CASE stage = "validation" -> JsonTexts(ValidationIds)
      [] stage = "ocr" -> OcrTexts
      [] stage = "normalize" -> JsonTexts(ExtractionIds)
      [] stage = "audit" -> JsonTexts(AuditIds)

Unset == [jt |-> "unset", m |-> <<>>, n |-> 0, s |-> <<>>]

\* errors the client may raise out of stream(): a non-200 status before the
\* first fragment, a connection failure or timeout at any read
ClientErrors == {"ValueError", "ConnectionError"}

(***************************************************************************)
(* VisionChain.analyze_prescription with _call_non_streaming: one action   *)
(* per suspension point (the reads from the client's stream).              *)
(***************************************************************************)
InitPipeline ==
    /\ pc = "start"
    /\ calls = <<>>
    /\ wire = <<>>
    /\ streamed = [st \in StageSet |-> <<>>]
    /\ response = <<>>
    /\ validation = Unset
    /\ raw_ocr = <<>>
    /\ extraction = Unset
    /\ audit = Unset
    /\ result = NoResult
    /\ pexc = "none"

\* mutant: the request is recorded in the chain's memory
SendRemembered(req) ==
    /\ calls' = Append(calls, req)
    /\ \E text \in StageTexts(req.stage) :
          /\ wire' = text
          /\ streamed' = [streamed EXCEPT ![req.stage] = text]
    /\ response' = <<>>
    /\ pc' = req.stage
    /\ memory' = Append(memory, [type |-> "human", content |-> <<req.stage>>])
    /\ UNCHANGED chain_prescription_id

\* _call_non_streaming up to its first read: the request goes out, response = ""
Send(req) ==
    /\ calls' = Append(calls, req)
    /\ \E text \in StageTexts(req.stage) :
          /\ wire' = text
          /\ streamed' = [streamed EXCEPT ![req.stage] = text]
    /\ response' = <<>>
    /\ pc' = req.stage
    /\ UNCHANGED selfVars

\* mutant: _call_non_streaming returns after the first chunk
StreamExhaustedEarly == wire = <<>> \/ response # <<>>

\* the for loop of _call_non_streaming has consumed the whole stream
StreamExhausted == wire = <<>>

\* an exception leaves analyze_prescription
Raises(e) ==
    /\ pc' = "raised"
    /\ pexc' = e
    /\ UNCHANGED <<calls, wire, streamed, response, result, selfVars>>

\* the return statement
Returns(r) ==
    /\ pc' = "done"
    /\ result' = r
    /\ UNCHANGED <<calls, wire, streamed, response, pexc, selfVars>>

\* STEP 0 is started
StartRun ==
    /\ pc = "start"
    /\ Send(Request("validation", TRUE, <<>>, NoJson))
    /\ UNCHANGED <<validation, raw_ocr, extraction, audit, result, pexc>>

\* response += chunk
Receive ==
    /\ pc \in StageSet \cup {"schedule_final"}
    /\ wire # <<>>
    /\ response' = Append(response, Head(wire))
    /\ wire' = Tail(wire)
    /\ UNCHANGED <<pc, calls, streamed, validation, raw_ocr, extraction, audit, result, pexc,
                   selfVars>>

\* mutant: the stage's request is sent again after a client error
ClientErrorRetried ==
    /\ pc \in StageSet
    /\ calls' = Append(calls, calls[Len(calls)])
    /\ wire' = streamed[pc]
    /\ response' = <<>>
    /\ UNCHANGED <<pc, streamed, validation, raw_ocr, extraction, audit, result, pexc, selfVars>>

\* the client raises while a stage reads from it
ClientError ==
    /\ pc \in StageSet \cup {"schedule_final"}
    /\ \E e \in ClientErrors :
          /\ e = "ValueError" => response = <<>>
          /\ Raises(e)
    /\ UNCHANGED <<validation, raw_ocr, extraction, audit>>

\* generate_final_schedule: its one request goes out
StartSchedule ==
    /\ pc = "start"
    /\ calls' = Append(calls, Request("schedule_final", FALSE, <<>>, json_dumps(Extraction(85))))
    /\ wire' \in JsonTexts(ScheduleIds)
    /\ response' = <<>>
    /\ pc' = "schedule_final"
    /\ UNCHANGED <<streamed, validation, raw_ocr, extraction, audit, result, pexc, selfVars>>

\* generate_final_schedule returns what it decoded, or {"schedule": []}
ScheduleReturns ==
    /\ pc = "schedule_final"
    /\ StreamExhausted
    /\ pc' = "scheduled"
    /\ result' = [schedule |-> DecodeOr(response, FallbackSchedule)]
    /\ UNCHANGED <<calls, wire, streamed, response, validation, raw_ocr, extraction, audit, pexc,
                   selfVars>>

\* STEP 0 returns: decode, GATE, then the return or STEP 1
ValidationReturns ==
    /\ pc = "validation"
    /\ StreamExhausted
    /\ LET v == DecodeOr(response, FallbackValidation)
           gate == GateOutcome(v)
       IN  /\ validation' = v
           /\ IF gate.exc # "none" THEN Raises(gate.exc)
              ELSE IF gate.blocked THEN Returns(RejectionResult(v))
              ELSE Send(Request("ocr", TRUE, <<>>, NoJson)) /\ UNCHANGED <<result, pexc>>
    /\ UNCHANGED <<raw_ocr, extraction, audit>>

\* mutant: the OCR text is cleaned like the JSON stages' texts
OcrReturnsCleaned ==
    /\ pc = "ocr"
    /\ StreamExhausted
    /\ raw_ocr' = clean_json_response(response)
    /\ Send(Request("normalize", FALSE, clean_json_response(response), NoJson))
    /\ UNCHANGED <<validation, extraction, audit, result, pexc>>

\* STEP 1 returns: raw_ocr, then STEP 2
OcrReturns ==
    /\ pc = "ocr"
    /\ StreamExhausted
    /\ raw_ocr' = response
    /\ Send(Request("normalize", FALSE, response, NoJson))
    /\ UNCHANGED <<validation, extraction, audit, result, pexc>>

\* STEP 2 returns: decode, then STEP 3 & 4
NormalizeReturns ==
    /\ pc = "normalize"
    /\ StreamExhausted
    /\ LET e == DecodeOr(response, FallbackExtraction)
       IN  /\ extraction' = e
           /\ Send(Request("audit", FALSE, raw_ocr, json_dumps(e)))
    /\ UNCHANGED <<validation, raw_ocr, audit, result, pexc>>

\* STEP 3 & 4 returns: decode, attach validation, classify, return
AuditReturns ==
    /\ pc = "audit"
    /\ StreamExhausted
    /\ LET end == Conclude(validation, extraction, raw_ocr, response)
       IN  /\ audit' = end.audit
           /\ IF end.exc # "none" THEN Raises(end.exc) ELSE Returns(end.result)
    /\ UNCHANGED <<validation, raw_ocr, extraction>>

(***************************************************************************)
(* VisionChain.stream_with_mode: the message set.                          *)
(***************************************************************************)
ExplainPrompt == <<"You are a medical assistant. [Explain Prescription]">>
SchedulePrompt == <<"You are a medication scheduling assistant. [Create Schedule]">>
DefaultPrompt == <<"You are a helpful medical assistant.">>

GLOBAL_DISCLAIMER == <<"\n\n**Disclaimer:** This is an AI-generated analysis of a prescription.">>

\* MODE_PROMPTS.get(mode, "You are a helpful medical assistant.")
get_mode_prompt(mode) ==
    CASE mode = "Explain Prescription" -> ExplainPrompt
      [] mode = "Create Schedule" -> SchedulePrompt
      [] OTHER -> DefaultPrompt

\* the text appended for the UNRESOLVABLE state
SafetyRule ==
    <<"\n\n", "SAFETY RULE: The current prescription handwriting is UNRESOLVABLE. ",
      "Do NOT infer or suggest medicine names",
      " unless the user explicitly provides them in this chat. Avoid all guesses.">>

\* mutant: the safety rule is appended for the known modes only
SystemPromptKnownModes(mode, ambiguity_state) ==
    IF ambiguity_state = "UNRESOLVABLE" /\ get_mode_prompt(mode) # DefaultPrompt
    THEN get_mode_prompt(mode) \o SafetyRule
    ELSE get_mode_prompt(mode)

\* system_prompt after the injection
SystemPrompt(mode, ambiguity_state) ==
    IF ambiguity_state = "UNRESOLVABLE"
    THEN get_mode_prompt(mode) \o SafetyRule
    ELSE get_mode_prompt(mode)

\* one message of the request: its role, whether an image part is attached, its
\* text, and the JSON rendering the text embeds (NoJson if none)
Message(role, image, text, json) ==
    [role |-> role, image |-> image, text |-> text, json |-> json]

\* combined_system: system_prompt, a blank line, context_msg
CombinedSystem(mode, ambiguity_state, extraction_context) ==
    Message("system", FALSE,
            SystemPrompt(mode, ambiguity_state)
                \o <<"\n\n", "Context: The following verified data was extracted from the prescription: ">>,
            json_dumps(extraction_context))

\* a turn of the memory
HumanMessage(text) == [type |-> "human", content |-> text]
AIMessage(text) == [type |-> "ai", content |-> text]

\* _format_message_for_api
format_message_for_api(msg) ==
    Message(IF msg.type = "system" THEN "system"
            ELSE IF msg.type = "human" THEN "user" ELSE "assistant",
            FALSE, msg.content, NoJson)

\* mutant: the query is added to the memory before the list is built
BuildMessagesAfterAppend(args, history) ==
    <<CombinedSystem(args.mode, args.ambiguity_state, args.extraction_context)>>
        \o [i \in 1..Len(history) + 1 |->
               format_message_for_api(Append(history, HumanMessage(args.user_query))[i])]
        \o <<Message("user", TRUE, args.user_query, NoJson)>>

\* the messages list: system, the history, the current query with the image
BuildMessages(args, history) ==
    <<CombinedSystem(args.mode, args.ambiguity_state, args.extraction_context)>>
        \o [i \in 1..Len(history) |-> format_message_for_api(history[i])]
        \o <<Message("user", TRUE, args.user_query, NoJson)>>

Modes == {"Explain Prescription", "Create Schedule", "Safety Check"}
Queries == {<<"What is Amox for?">>, <<"When do I take it?">>}
ReplyTexts == {<<>>, <<"Take", " Amox">>}
NoArgs == [mode |-> "", user_query |-> <<>>, extraction_context |-> Unset, ambiguity_state |-> ""]

(***************************************************************************)
(* VisionChain.stream_with_mode as a generator: one action per resumption. *)
(***************************************************************************)
\* mutant: the memory is started afresh with the query
TurnBeginReplacing(args) ==
    /\ sent' = BuildMessages(args, memory)
    /\ memory' = <<HumanMessage(args.user_query)>>
    /\ full_response' = <<>>
    /\ tout' = <<>>
    /\ twire' \in ReplyTexts
    /\ tpc' = "streaming"

\* the first next(): everything up to the request
TurnBegin(args) ==
    /\ sent' = BuildMessages(args, memory)
    /\ memory' = Append(memory, HumanMessage(args.user_query))
    /\ full_response' = <<>>
    /\ tout' = <<>>
    /\ twire' \in ReplyTexts
    /\ tpc' = "streaming"

\* full_response += chunk; yield chunk
TurnChunk ==
    /\ tpc = "streaming"
    /\ twire # <<>>
    /\ full_response' = Append(full_response, Head(twire))
    /\ tout' = Append(tout, <<Head(twire)>>)
    /\ twire' = Tail(twire)
    /\ UNCHANGED <<memory, tpc, targs, sent>>

\* mutant: nothing is yielded after an empty reply
TurnDisclaimerUnlessEmpty ==
    /\ tpc = "streaming"
    /\ twire = <<>>
    /\ tout' = IF full_response = <<>> THEN tout ELSE Append(tout, GLOBAL_DISCLAIMER)
    /\ tpc' = "disclaimer"
    /\ UNCHANGED <<memory, targs, sent, twire, full_response>>

\* the client's stream is exhausted: yield GLOBAL_DISCLAIMER
TurnDisclaimer ==
    /\ tpc = "streaming"
    /\ twire = <<>>
    /\ tout' = Append(tout, GLOBAL_DISCLAIMER)
    /\ tpc' = "disclaimer"
    /\ UNCHANGED <<memory, targs, sent, twire, full_response>>

\* mutant: the reply is stored without the disclaimer
AddAIMessageBare == memory' = Append(memory, AIMessage(full_response))

\* self.memory.add_ai_message(response_with_disclaimer)
AddAIMessage == memory' = Append(memory, AIMessage(full_response \o GLOBAL_DISCLAIMER))

\* resumed after the disclaimer: add_ai_message, the generator returns
TurnFinish ==
    /\ tpc = "disclaimer"
    /\ AddAIMessage
    /\ tpc' = "finished"
    /\ UNCHANGED <<targs, sent, twire, tout, full_response>>

\* the client raises while the reply is read
TurnError ==
    /\ tpc = "streaming"
    /\ tpc' = "raised"
    /\ UNCHANGED <<memory, targs, sent, twire, tout, full_response>>

\* the caller drops the generator while it is suspended at a yield
TurnAbandon ==
    /\ \/ tpc = "streaming" /\ tout # <<>>
       \/ tpc = "disclaimer"
    /\ tpc' = "closed"
    /\ UNCHANGED <<memory, targs, sent, twire, tout, full_response>>

TurnInProgress == tpc \in {"created", "streaming", "disclaimer"}

\* the call of SpecChat: arbitrary arguments on an arbitrary history
InitChat ==
    /\ memory \in {<<>>, <<HumanMessage(<<"hello">>), AIMessage(<<"hi">> \o GLOBAL_DISCLAIMER)>>}
    /\ tpc = "created"
    /\ targs \in [mode : Modes, user_query : Queries,
                 extraction_context : {Extraction(85), FallbackExtraction},
                 ambiguity_state : {"CLEAR", "CLARIFIABLE", "UNRESOLVABLE", "unresolvable"}]
    /\ sent = <<>>
    /\ twire = <<>>
    /\ tout = <<>>
    /\ full_response = <<>>

CallStream ==
    /\ tpc = "created"
    /\ TurnBegin(targs)
    /\ UNCHANGED targs

(***************************************************************************)
(* The session: the prescription page and the human-resolution widgets.    *)
(***************************************************************************)
\* the runs of the pipeline an upload may meet: the four texts of the model
Scenarios ==
    {<<(<<"v_false_95">>), <<>>, <<>>, <<>>>>,
     <<(<<"v_true_95">>), <<"Amox", " ", "500mg">>, <<"e_85">>, <<"a_none">>>>,
     <<(<<"v_true_95">>), <<"[UNCLEAR]">>, <<"e_40">>, <<"a_noopts">>>>,
     <<(<<"v_true_95">>), <<"Amox", " ", "500mg">>, <<"e_50">>, <<"a_opts">>>>,
     <<(<<"v_true_95">>), <<"Amox", " ", "500mg">>, <<"e_50">>, <<"a_mixed">>>>,
     <<(<<"v_true_95">>), <<"[UNCLEAR]">>, <<"Sorry,", "no JSON">>, <<"Sorry,", "no JSON">>>>,
     <<(<<"v_true_95">>), <<"Amox", " ", "500mg">>, <<"e_noconf">>, <<"a_noopts">>>>}

\* services.extraction_service.perform_extraction: the analysis handed to the
\* session carries the state on its audit record, where the page reads it
PerformExtraction(r) ==
    IF "ambiguity_state" \in DOMAIN r
    THEN [r EXCEPT !.audit = SetItem(r.audit, "ambiguity_state", JStr(<<r.ambiguity_state>>))]
    ELSE r

\* mutant: the page leaves the parameter at its default
PageAmbiguityStateDefault(analysis) == "CLEAR"

\* audit_data.get("ambiguity_state", "CLEAR")
PageAmbiguityState(analysis) ==
    DotGet(analysis.audit, "ambiguity_state", JStr(<<"CLEAR">>)).val.s[1]

PageModes == {"Explain Prescription"}
PageQueries == {<<"What is Amox for?">>}
NoOrigin == [state |-> "none", corrected |-> FALSE]

\* the database: a row is written with the values its caller passes
NoRecord == [extraction |-> Unset, audit |-> Unset]
update_prescription_data(extraction_data, audit_data) ==
    [extraction |-> extraction_data, audit |-> audit_data]

InitSession ==
    /\ prescription_id = 0
    /\ active_analysis = NoResult
    /\ chat_history = <<>>
    /\ uploads = 0
    /\ origin = NoOrigin
    /\ turn_origin = NoOrigin
    /\ completed = 0
    /\ active_img_hash = 0
    /\ chain_prescription_id = 0
    /\ stored = NoRecord

RestChat ==
    /\ memory = <<>>
    /\ tpc = "idle"
    /\ targs = NoArgs
    /\ sent = <<>>
    /\ twire = <<>>
    /\ tout = <<>>
    /\ full_response = <<>>

\* load_into_session(p_id, img_hash, image, analysis, history)
load_into_session(p_id, img_hash, analysis, history) ==
    /\ prescription_id' = p_id
    /\ active_img_hash' = img_hash
    /\ chain_prescription_id' = p_id
    /\ active_analysis' = analysis
    /\ chat_history' = history
    /\ memory' = history

\* a new image is uploaded, analysed and loaded
Upload ==
    /\ ~TurnInProgress
    /\ uploads < MaxUploads
    /\ uploads' = uploads + 1
    /\ \E sc \in Scenarios :
          LET out == AnalyzeOutcome(sc[1], sc[2], sc[3], sc[4])
          IN  /\ out.exc = "none"
              /\ load_into_session(uploads + 1, uploads + 1, PerformExtraction(out.result), <<>>)
              /\ origin' = [state |-> IF "ambiguity_state" \in DOMAIN out.result
                                      THEN out.result.ambiguity_state ELSE "none",
                            corrected |-> FALSE]
    /\ completed' = 0
    /\ stored' = update_prescription_data(active_analysis'.extraction, active_analysis'.audit)
    /\ UNCHANGED <<tpc, targs, sent, twire, tout, full_response, turn_origin>>

PageShown == prescription_id # 0

\* mutant: the entry and all that follow it go
RemoveFrom(seq, i) == SubSeq(seq, 1, i - 1)

\* list.pop(i)
RemoveAt(seq, i) == SubSeq(seq, 1, i - 1) \o SubSeq(seq, i + 1, Len(seq))

\* render_unresolvable_card, submitted with a medicine name
ManualEntry ==
    /\ ~TurnInProgress
    /\ PageShown
    /\ PageAmbiguityState(active_analysis) = "UNRESOLVABLE"
    /\ LET e == active_analysis.extraction
           with_list == IF "medicines" \in DOMAIN e.m THEN e
                        ELSE SetItem(e, "medicines", JList(<<>>))
           new_med == JObj([name |-> JStr(<<"Amoxicillin", " (Tablet)">>),
                            dosage |-> JStr(<<"Verifying...">>),
                            frequency |-> JStr(<<"Verifying...">>),
                            timing |-> JList(<<>>),
                            instructions |-> JStr(<<"Manually confirmed by user.">>),
                            confidence |-> JNum(100)])
           appended == SetItem(with_list, "medicines",
                               PyAppend(with_list.m["medicines"], new_med))
       IN  active_analysis' =
               [active_analysis EXCEPT
                   !.extraction = SetItem(appended, "overall_confidence", JNum(80)),
                   !.audit = SetItem(active_analysis.audit, "ambiguity_state", JStr(<<"CLEAR">>))]
    /\ stored' = update_prescription_data(active_analysis'.extraction, active_analysis'.audit)
    /\ origin' = [origin EXCEPT !.corrected = TRUE]
    /\ UNCHANGED <<chatVars, prescription_id, chat_history, uploads, turn_origin, completed,
                   active_img_hash, chain_prescription_id>>

\* the medicines after med[field] = opt; med["confidence"] = 1.0 on the first
\* medicine whose name is med_name
RECURSIVE ConfirmIn(_, _, _, _)
ConfirmIn(meds, med_name, field, opt) ==
    IF meds = <<>> THEN <<>>
    ELSE IF DotGet(Head(meds), "name", JNull).val = med_name
    THEN <<SetItem(SetItem(Head(meds), field, opt), "confidence", JNum(100))>> \o Tail(meds)
    ELSE <<Head(meds)>> \o ConfirmIn(Tail(meds), med_name, field, opt)

\* mutant: the state is left as it was when the last ambiguity goes
PopAmbiguityKeepState(a, i) ==
    SetItem(a, "ambiguities", JList(RemoveAt(a.m["ambiguities"].m, i)))

\* ambiguities.pop(i); if not ambiguities: audit_data["ambiguity_state"] = "CLEAR"
PopAmbiguity(a, i) ==
    LET rest == RemoveAt(a.m["ambiguities"].m, i)
        popped == SetItem(a, "ambiguities", JList(rest))
    IN  IF rest = <<>> THEN SetItem(popped, "ambiguity_state", JStr(<<"CLEAR">>))
        ELSE popped

ResolverShown ==
    /\ PageShown
    /\ PageAmbiguityState(active_analysis) # "UNRESOLVABLE"
    /\ DotGet(active_analysis.audit, "ambiguities", JList(<<>>)).val.m # <<>>

\* render_ambiguity_resolver: the button of option j of ambiguity i
ConfirmOption ==
    /\ ~TurnInProgress
    /\ ResolverShown
    /\ LET ambs == active_analysis.audit.m["ambiguities"].m
       IN  \E i \in 1..Len(ambs) :
             LET options == DotGet(ambs[i], "options", JList(<<>>)).val.m
                 med_name == DotGet(ambs[i], "medicine_name", JStr(<<"Unknown Medicine">>)).val
                 field == DotGet(ambs[i], "field", JStr(<<"name">>)).val.s[1]
                 e == active_analysis.extraction
             IN  \E j \in 1..Len(options) :
                   active_analysis' =
                       [active_analysis EXCEPT
                           !.extraction =
                               IF "medicines" \in DOMAIN e.m
                               THEN SetItem(e, "medicines",
                                            JList(ConfirmIn(e.m["medicines"].m, med_name,
                                                            field, options[j])))
                               ELSE e,
                           !.audit = PopAmbiguity(active_analysis.audit, i)]
    /\ stored' = update_prescription_data(active_analysis'.extraction, active_analysis.audit)
    /\ origin' = [origin EXCEPT !.corrected = TRUE]
    /\ UNCHANGED <<chatVars, prescription_id, chat_history, uploads, turn_origin, completed,
                   active_img_hash, chain_prescription_id>>

\* render_ambiguity_resolver: the button "None of these" of ambiguity i
NoneOfThese ==
    /\ ~TurnInProgress
    /\ ResolverShown
    /\ \E i \in 1..Len(active_analysis.audit.m["ambiguities"].m) :
          active_analysis' =
              [active_analysis EXCEPT !.audit = PopAmbiguity(active_analysis.audit, i)]
    /\ origin' = [origin EXCEPT !.corrected = TRUE]
    /\ UNCHANGED <<chatVars, prescription_id, chat_history, uploads, turn_origin, completed,
                   active_img_hash, chain_prescription_id, stored>>

\* st.chat_input returns a query: stream_with_mode is called and iterated
SubmitQuery ==
    /\ ~TurnInProgress
    /\ PageShown
    /\ Len(memory) < 2 * MaxTurns
    /\ \E mode \in PageModes, query \in PageQueries :
          LET args == [mode |-> mode, user_query |-> query,
                       extraction_context |-> active_analysis.extraction,
                       ambiguity_state |-> PageAmbiguityState(active_analysis)]
          IN  targs' = args /\ TurnBegin(args)
    /\ turn_origin' = origin
    /\ UNCHANGED <<prescription_id, active_analysis, chat_history, uploads, origin, completed,
                   active_img_hash, chain_prescription_id, stored>>

\* the script run that held the generator is over: its frame is released
DiscardFrame ==
    /\ tpc' = "idle"
    /\ targs' = NoArgs
    /\ sent' = <<>>
    /\ twire' = <<>>
    /\ tout' = <<>>
    /\ full_response' = <<>>
    /\ turn_origin' = NoOrigin

\* the for loop of the page ends: the two new turns go to chat_history
PageFinish ==
    /\ tpc = "disclaimer"
    /\ AddAIMessage
    /\ chat_history' = chat_history \o SubSeq(memory', Len(memory') - 1, Len(memory'))
    /\ DiscardFrame
    /\ completed' = completed + 1
    /\ UNCHANGED <<prescription_id, active_analysis, uploads, origin, active_img_hash,
                   chain_prescription_id, stored>>

\* the client raises while the page iterates: the exception ends the script run
PageError ==
    /\ tpc = "streaming"
    /\ DiscardFrame
    /\ UNCHANGED <<memory, prescription_id, active_analysis, chat_history, uploads, origin,
                   completed, active_img_hash, chain_prescription_id, stored>>

\* a widget interaction reruns the script while the generator is suspended
PageRerun ==
    /\ \/ tpc = "streaming" /\ tout # <<>>
       \/ tpc = "disclaimer"
    /\ DiscardFrame
    /\ UNCHANGED <<memory, prescription_id, active_analysis, chat_history, uploads, origin,
                   completed, active_img_hash, chain_prescription_id, stored>>

\* render_sidebar: the New Chat button
NewChat ==
    /\ ~TurnInProgress
    /\ prescription_id' = 0
    /\ active_img_hash' = 0
    /\ chat_history' = <<>>
    /\ memory' = <<>>
    /\ completed' = 0
    /\ UNCHANGED <<tpc, targs, sent, twire, tout, full_response, active_analysis, uploads,
                   origin, turn_origin, chain_prescription_id, stored>>

\* render_sidebar: the delete button of the active conversation
DeleteActive ==
    /\ ~TurnInProgress
    /\ prescription_id # 0
    /\ prescription_id' = 0
    /\ memory' = <<>>
    /\ stored' = NoRecord
    /\ UNCHANGED <<tpc, targs, sent, twire, tout, full_response, active_analysis, chat_history,
                   uploads, origin, turn_origin, completed, active_img_hash,
                   chain_prescription_id>>

(***************************************************************************)
(* Several sessions in one process: each runs app.py's script on its own   *)
(* st.session_state; objects live on a heap and are held by reference.     *)
(***************************************************************************)
SessionIds == {"a", "b"}
SessionScenarios ==
    {sc \in Scenarios : sc[4] \in {<<>>, <<"a_none">>, <<"a_opts">>}}
NoRun == <<>>
NoSession ==
    [memory |-> 0, analysis |-> 0, run |-> NoRun, turn |-> "idle", own |-> <<>>,
     alone |-> NoResult]

InitSessions ==
    /\ histories = <<>>
    /\ analyses = <<>>
    /\ sessions = [s \in SessionIds |-> NoSession]

\* mutant: one object serves every caller
AllocateShared(heap) == 1

\* a constructor call or a dict display: the address of a new object
Allocate(heap) == Len(heap) + 1

\* initialize_session_state: the session's chat_memory and vision_chain
SessionStart(s) ==
    /\ sessions[s].memory = 0
    /\ histories' = Append(histories, <<>>)
    /\ sessions' = [sessions EXCEPT ![s].memory = Allocate(histories)]
    /\ UNCHANGED analyses

\* the upload handler calls analyze_prescription: the run is under way
SessionAnalyzeBegin(s) ==
    /\ sessions[s].memory # 0
    /\ sessions[s].analysis = 0
    /\ sessions[s].run = NoRun
    /\ \E sc \in SessionScenarios : sessions' = [sessions EXCEPT ![s].run = sc]
    /\ UNCHANGED <<histories, analyses>>

\* the run returns its dict and load_into_session stores it
SessionAnalyzeEnd(s) ==
    /\ sessions[s].run # NoRun
    /\ LET sc == sessions[s].run
           out == AnalyzeOutcome(sc[1], sc[2], sc[3], sc[4])
           loaded == PerformExtraction(out.result)
       IN  /\ out.exc = "none"
           /\ analyses' = Append(analyses, loaded)
           /\ histories' = [histories EXCEPT ![sessions[s].memory] = <<>>]
           /\ sessions' = [sessions EXCEPT ![s].analysis = Allocate(analyses),
                                           ![s].run = NoRun,
                                           ![s].own = <<>>,
                                           ![s].alone = loaded]

\* stream_with_mode up to the request: add_user_message on self.memory
SessionTurnBegin(s) ==
    /\ sessions[s].analysis # 0
    /\ sessions[s].turn = "idle"
    /\ Len(sessions[s].own) < 2 * MaxTurns
    /\ \E query \in PageQueries :
          /\ histories' = [histories EXCEPT ![sessions[s].memory] =
                                              Append(@, HumanMessage(query))]
          /\ sessions' = [sessions EXCEPT ![s].turn = "streaming",
                                          ![s].own = Append(@, HumanMessage(query))]
    /\ UNCHANGED analyses

\* the stream is consumed to the end: add_ai_message on self.memory
SessionTurnEnd(s) ==
    /\ sessions[s].turn = "streaming"
    /\ \E reply \in ReplyTexts :
          /\ histories' = [histories EXCEPT ![sessions[s].memory] =
                                              Append(@, AIMessage(reply \o GLOBAL_DISCLAIMER))]
          /\ sessions' = [sessions EXCEPT ![s].turn = "idle",
                                          ![s].own =
                                              Append(@, AIMessage(reply \o GLOBAL_DISCLAIMER))]
    /\ UNCHANGED analyses

(***************************************************************************)
(* The specifications.  Each one runs one part; the other parts rest.      *)
(***************************************************************************)
RestStream ==
    /\ status_code = 200
    /\ lines = <<>>
    /\ pos = 0
    /\ yielded = <<>>
    /\ sstate = "created"
    /\ sexc = "none"
    /\ api_key = EnvStr(<<"sk-1">>)
    /\ client = "constructed"
    /\ posted = FALSE

\* one call of VisionLLMClient.stream
InitSpecStream == InitStream /\ InitPipeline /\ RestChat /\ InitSession /\ InitSessions

NextStream ==
    \/ Construct /\ UNCHANGED <<multiVars, pipeVars, chatVars, sessVars>>
    \/ StreamOpen /\ UNCHANGED <<multiVars, pipeVars, chatVars, sessVars>>
    \/ StreamLine /\ UNCHANGED <<multiVars, pipeVars, chatVars, sessVars>>
    \/ StreamEnd /\ UNCHANGED <<multiVars, pipeVars, chatVars, sessVars>>

SpecStream == InitSpecStream /\ [][NextStream]_vars

\* one run of VisionChain.analyze_prescription
\* the session the run is called in: a fresh one or one with a conversation
RunSession ==
    /\ \/ /\ memory = <<>>
          /\ prescription_id = 0
       \/ /\ memory = <<HumanMessage(<<"hello">>), AIMessage(<<"hi">> \o GLOBAL_DISCLAIMER)>>
          /\ prescription_id = 1
    /\ chain_prescription_id = prescription_id
    /\ active_img_hash = prescription_id
    /\ tpc = "idle"
    /\ targs = NoArgs
    /\ sent = <<>>
    /\ twire = <<>>
    /\ tout = <<>>
    /\ full_response = <<>>
    /\ active_analysis = NoResult
    /\ chat_history = memory
    /\ uploads = prescription_id
    /\ origin = NoOrigin
    /\ turn_origin = NoOrigin
    /\ completed = 0
    /\ stored = NoRecord

InitSpecPipeline == InitPipeline /\ RestStream /\ RunSession /\ InitSessions

NextPipeline ==
    \/ StartRun /\ UNCHANGED <<multiVars, streamVars, turnVars, pageVars>>
    \/ Receive /\ UNCHANGED <<multiVars, streamVars, turnVars, pageVars>>
    \/ ClientError /\ UNCHANGED <<multiVars, streamVars, turnVars, pageVars>>
    \/ ValidationReturns /\ UNCHANGED <<multiVars, streamVars, turnVars, pageVars>>
    \/ OcrReturns /\ UNCHANGED <<multiVars, streamVars, turnVars, pageVars>>
    \/ NormalizeReturns /\ UNCHANGED <<multiVars, streamVars, turnVars, pageVars>>
    \/ AuditReturns /\ UNCHANGED <<multiVars, streamVars, turnVars, pageVars>>

SpecPipeline == InitSpecPipeline /\ [][NextPipeline]_vars

\* one run of either method of VisionChain that calls _call_non_streaming
InitSpecRuns == InitPipeline /\ RestStream /\ RunSession /\ InitSessions

NextRuns ==
    \/ StartRun /\ UNCHANGED <<multiVars, streamVars, turnVars, pageVars>>
    \/ Receive /\ UNCHANGED <<multiVars, streamVars, turnVars, pageVars>>
    \/ ClientError /\ UNCHANGED <<multiVars, streamVars, turnVars, pageVars>>
    \/ ValidationReturns /\ UNCHANGED <<multiVars, streamVars, turnVars, pageVars>>
    \/ OcrReturns /\ UNCHANGED <<multiVars, streamVars, turnVars, pageVars>>
    \/ NormalizeReturns /\ UNCHANGED <<multiVars, streamVars, turnVars, pageVars>>
    \/ AuditReturns /\ UNCHANGED <<multiVars, streamVars, turnVars, pageVars>>
    \/ StartSchedule /\ UNCHANGED <<multiVars, streamVars, turnVars, pageVars>>
    \/ ScheduleReturns /\ UNCHANGED <<multiVars, streamVars, turnVars, pageVars>>

SpecRuns == InitSpecRuns /\ [][NextRuns]_vars

\* one call of VisionChain.stream_with_mode
InitSpecChat == InitChat /\ RestStream /\ InitPipeline /\ InitSession /\ InitSessions

NextChat ==
    \/ CallStream /\ UNCHANGED <<multiVars, streamVars, pipeVars, sessVars>>
    \/ TurnChunk /\ UNCHANGED <<multiVars, streamVars, pipeVars, sessVars>>
    \/ TurnDisclaimer /\ UNCHANGED <<multiVars, streamVars, pipeVars, sessVars>>
    \/ TurnFinish /\ UNCHANGED <<multiVars, streamVars, pipeVars, sessVars>>
    \/ TurnError /\ UNCHANGED <<multiVars, streamVars, pipeVars, sessVars>>
    \/ TurnAbandon /\ UNCHANGED <<multiVars, streamVars, pipeVars, sessVars>>

SpecChat == InitSpecChat /\ [][NextChat]_vars

\* one session of the application
Init == InitSession /\ RestChat /\ RestStream /\ InitPipeline /\ InitSessions

Next ==
    \/ Upload /\ UNCHANGED <<multiVars, streamVars, pipeVars>>
    \/ ManualEntry /\ UNCHANGED <<multiVars, streamVars, pipeVars>>
    \/ ConfirmOption /\ UNCHANGED <<multiVars, streamVars, pipeVars>>
    \/ NoneOfThese /\ UNCHANGED <<multiVars, streamVars, pipeVars>>
    \/ SubmitQuery /\ UNCHANGED <<multiVars, streamVars, pipeVars>>
    \/ TurnChunk /\ UNCHANGED <<multiVars, streamVars, pipeVars, sessVars>>
    \/ TurnDisclaimer /\ UNCHANGED <<multiVars, streamVars, pipeVars, sessVars>>
    \/ PageFinish /\ UNCHANGED <<multiVars, streamVars, pipeVars>>
    \/ PageError /\ UNCHANGED <<multiVars, streamVars, pipeVars>>
    \/ PageRerun /\ UNCHANGED <<multiVars, streamVars, pipeVars>>
    \/ NewChat /\ UNCHANGED <<multiVars, streamVars, pipeVars>>
    \/ DeleteActive /\ UNCHANGED <<multiVars, streamVars, pipeVars>>

Spec == Init /\ [][Next]_vars

\* two sessions of the application, interleaved
InitSpecSessions == InitSessions /\ InitSession /\ RestChat /\ RestStream /\ InitPipeline

NextSessions ==
    \/ \E s \in SessionIds : SessionStart(s) /\ UNCHANGED <<streamVars, pipeVars, chatVars, sessVars>>
    \/ \E s \in SessionIds :
          SessionAnalyzeBegin(s) /\ UNCHANGED <<streamVars, pipeVars, chatVars, sessVars>>
    \/ \E s \in SessionIds :
          SessionAnalyzeEnd(s) /\ UNCHANGED <<streamVars, pipeVars, chatVars, sessVars>>
    \/ \E s \in SessionIds :
          SessionTurnBegin(s) /\ UNCHANGED <<streamVars, pipeVars, chatVars, sessVars>>
    \/ \E s \in SessionIds :
          SessionTurnEnd(s) /\ UNCHANGED <<streamVars, pipeVars, chatVars, sessVars>>

SpecSessions == InitSpecSessions /\ [][NextSessions]_vars

(***************************************************************************)
(* Vocabulary of the properties, stated on the data, not on the operators  *)
(* that model the code.                                                    *)
(***************************************************************************)
Min(a, b) == IF a <= b THEN a ELSE b

\* the validation record says: a prescription
IsPrescription(v) ==
    "is_prescription" \in DOMAIN v.m /\ v.m["is_prescription"] = JBool(TRUE)

\* the confidence the validation record states, 0 if it states none
StatedConfidence(v) == IF "confidence" \in DOMAIN v.m THEN v.m["confidence"].n ELSE 0

FailsGate(v) == v.jt = "dict" /\ (~IsPrescription(v) \/ StatedConfidence(v) < 70)
PassesGate(v) == v.jt = "dict" /\ IsPrescription(v) /\ StatedConfidence(v) >= 70

\* the rejection result of the safety gate
RejectionShape(r) ==
    /\ DOMAIN r = {"validation", "extraction", "audit", "raw_ocr"}
    /\ r.extraction = JObj([medicines |-> JList(<<>>), overall_confidence |-> JNum(0)])
    /\ r.audit.m["safety_flags"] = JList(<<JStr(<<"Image rejected by safety gate.">>)>>)
    /\ r.audit.m["is_safe_to_display"] = JBool(FALSE)
    /\ r.raw_ocr = <<>>

Classified == pc = "done" /\ "ambiguity_state" \in DOMAIN result

\* the ambiguities an audit record lists
Ambiguities(a) == IF "ambiguities" \in DOMAIN a.m THEN a.m["ambiguities"].m ELSE <<>>

\* the safety flags an audit record lists
SafetyFlags(a) == IF "safety_flags" \in DOMAIN a.m THEN a.m["safety_flags"].m ELSE <<>>

OffersOptions(amb) == "options" \in DOMAIN amb.m /\ Len(amb.m["options"].m) > 0

Count(x, seq) == Cardinality({i \in 1..Len(seq) : seq[i] = x})

\* the fixed safety directive
Directive == "Do NOT infer or suggest medicine names"

\* the text carries the directive
Carries(text) == \E i \in 1..Len(text) : text[i] = Directive

SystemMessages(msgs) == {i \in 1..Len(msgs) : msgs[i].role = "system"}

HasFlag(a, flag) == \E i \in 1..Len(SafetyFlags(a)) : SafetyFlags(a)[i] = flag

(***************************************************************************)
(* C1  For every call of stream_with_mode, whatever the chat mode (a known *)
(* mode or an unrecognised mode string), the request carries a single      *)
(* system message, and that message contains the safety directive exactly  *)
(* when the ambiguity_state argument is UNRESOLVABLE.                       *)
(***************************************************************************)
C1_SafetyInjection ==
    sent # <<>> =>
        /\ SystemMessages(sent) = {1}
        /\ Carries(sent[1].text) <=> targs.ambiguity_state = "UNRESOLVABLE"

C1_Witness ==
    /\ tpc = "streaming"
    /\ targs.mode = "Safety Check"
    /\ targs.ambiguity_state = "UNRESOLVABLE"
    /\ memory # <<>>
    /\ Carries(sent[1].text)

C3_GateRule ==
    /\ pc = "done" => (RejectionShape(result) <=> FailsGate(validation))
    /\ pc = "done" /\ ~FailsGate(validation) => "ambiguity_state" \in DOMAIN result
    /\ FailsGate(validation) => pc = "done" /\ RejectionShape(result)
    /\ PassesGate(validation) => Len(calls) >= 2
    /\ validation = Validation(TRUE, 69) => pc = "done" /\ RejectionShape(result)
    /\ validation = Validation(TRUE, 70) => Len(calls) >= 2 /\ calls[2].stage = "ocr"

C3_Witness ==
    /\ pc = "done"
    /\ validation = Validation(TRUE, 69)
    /\ RejectionShape(result)

(***************************************************************************)
(* C4  In a run whose validation fails the gate, no OCR, normalize or      *)
(* audit request is ever sent: the validation call is the only client call *)
(* of the run, and the run ends in the rejection result.                   *)
(***************************************************************************)
C4_OnlyValidationCall ==
    FailsGate(validation) =>
        /\ Len(calls) = 1
        /\ calls[1].stage = "validation"
        /\ pc = "done"
        /\ RejectionShape(result)

C4_Witness ==
    /\ validation = Validation(FALSE, 95)
    /\ pc = "done"
    /\ Len(calls) = 1

(***************************************************************************)
(* C5  The stages are started in the order validation, OCR, normalize,     *)
(* audit, classification, none skipped or repeated once the gate is        *)
(* passed, and stage N+1 is never started before the full streamed text of *)
(* stage N has been collected: the normalize request contains the complete *)
(* OCR text, the audit request the complete OCR text and the serialized    *)
(* extraction.                                                             *)
(***************************************************************************)
C5_StrictSequencing ==
    /\ IsPrefix([i \in 1..Len(calls) |-> calls[i].stage], Stages)
    /\ pc \in StageSet => pc = Stages[Len(calls)] /\ response \o wire = streamed[pc]
    /\ Len(calls) >= 2 => validation = DecodeOr(streamed["validation"], FallbackValidation)
    /\ Len(calls) >= 3 => raw_ocr = streamed["ocr"] /\ calls[3].ocr = streamed["ocr"]
    /\ Len(calls) >= 4 =>
          /\ extraction = DecodeOr(streamed["normalize"], FallbackExtraction)
          /\ calls[4].ocr = streamed["ocr"]
          /\ calls[4].json = json_dumps(extraction)
    /\ pc = "done" => Len(calls) \in {1, 4}
    /\ Classified =>
          /\ Len(calls) = 4
          /\ wire = <<>>
          /\ response = streamed["audit"]
          /\ result.raw_ocr = streamed["ocr"]

C5_Witness ==
    /\ Classified
    /\ Len(streamed["ocr"]) > 1
    /\ Len(streamed["normalize"]) > 1
    /\ Len(streamed["audit"]) > 1

(***************************************************************************)
(* C6  Classification yields CLEAR when overall_confidence >= 0.70;        *)
(* otherwise CLARIFIABLE when the list of ambiguities is non-empty and at  *)
(* least one ambiguity has a non-empty options list; otherwise             *)
(* UNRESOLVABLE.                                                           *)
(***************************************************************************)
C6_ClassificationRule ==
    Classified /\ "overall_confidence" \in DOMAIN extraction.m =>
        LET confidence == extraction.m["overall_confidence"].n
            ambs == Ambiguities(result.audit)
            candidates == \E i \in 1..Len(ambs) : OffersOptions(ambs[i])
        IN  /\ confidence >= 70 => result.ambiguity_state = "CLEAR"
            /\ confidence < 70 /\ ambs # <<>> /\ candidates =>
                    result.ambiguity_state = "CLARIFIABLE"
            /\ confidence < 70 /\ ~(ambs # <<>> /\ candidates) =>
                    result.ambiguity_state = "UNRESOLVABLE"

C6_Witness ==
    /\ Classified
    /\ extraction = Extraction(50)
    /\ Ambiguities(result.audit) = <<Ambiguity(<<JStr(<<"A">>), JStr(<<"B">>)>>)>>
    /\ result.ambiguity_state = "CLARIFIABLE"

(***************************************************************************)
(* C7  Whenever classification yields UNRESOLVABLE, both fixed strings are *)
(* in audit.safety_flags afterwards, each exactly once; applying the       *)
(* classification step a second time to the same audit object yields the   *)
(* same state and leaves safety_flags unchanged; for CLEAR and CLARIFIABLE *)
(* the step leaves safety_flags unchanged.                                 *)
(***************************************************************************)
C7_FlagsExactlyOnce ==
    Classified =>
        LET before == DecodeOr(streamed["audit"], FallbackAudit)
            again == ClassifyStep(result.extraction, result.audit)
        IN  /\ result.ambiguity_state = "UNRESOLVABLE" =>
                  /\ Count(UnclearFlag, SafetyFlags(result.audit)) = 1
                  /\ Count(NoCandidatesFlag, SafetyFlags(result.audit)) = 1
            /\ again.state = result.ambiguity_state
            /\ again.audit = result.audit
            /\ result.ambiguity_state \in {"CLEAR", "CLARIFIABLE"} =>
                  SafetyFlags(result.audit) = SafetyFlags(before)

\* what does hold: the step adds each fixed string at most once and is idempotent
C7_FlagsAddedOnce ==
    Classified =>
        LET before == DecodeOr(streamed["audit"], FallbackAudit)
            again == ClassifyStep(result.extraction, result.audit)
            grown(flag) == IF Count(flag, SafetyFlags(before)) = 0 THEN 1
                           ELSE Count(flag, SafetyFlags(before))
        IN  /\ result.ambiguity_state = "UNRESOLVABLE" =>
                  /\ Count(UnclearFlag, SafetyFlags(result.audit)) = grown(UnclearFlag)
                  /\ Count(NoCandidatesFlag, SafetyFlags(result.audit)) = grown(NoCandidatesFlag)
            /\ again.state = result.ambiguity_state
            /\ again.audit = result.audit
            /\ result.ambiguity_state \in {"CLEAR", "CLARIFIABLE"} =>
                  SafetyFlags(result.audit) = SafetyFlags(before)

(***************************************************************************)
(* Vocabulary of the properties of VisionLLMClient.stream.                 *)
(***************************************************************************)
\* the text at choices[0].delta.content of a well-formed event line, else ""
EventContent(line) ==
    IF line = <<"data: ", "evA">> THEN <<"A">>
    ELSE IF line = <<"data: ", "evB">> THEN <<"B">>
    ELSE <<>>

\* the line is data: [DONE]
IsDone(line) == Len(line) >= 2 /\ line[1] = "data: " /\ Strip(Tail(line)) = <<"[DONE]">>

\* the index of the first [DONE] line, Len(lines) + 1 if there is none
FirstDone ==
    LET dones == {i \in 1..Len(lines) : IsDone(lines[i])}
    IN  IF dones = {} THEN Len(lines) + 1
        ELSE CHOOSE i \in dones : \A j \in dones : i <= j

\* the contents of the well-formed events among the first n lines, in wire order
RECURSIVE WireFragments(_)
WireFragments(n) ==
    IF n = 0 THEN <<>>
    ELSE IF EventContent(lines[n]) = <<>> THEN WireFragments(n - 1)
    ELSE Append(WireFragments(n - 1), EventContent(lines[n]))

StreamOver == sstate \in {"done", "raised"}

(***************************************************************************)
(* C8  For every sequence of SSE lines returned with a success status, the *)
(* concatenation of the fragments yielded by stream equals the             *)
(* concatenation, in order, of choices[0].delta.content of all well-formed *)
(* events that are not [DONE] (read: up to the [DONE] line that ends the   *)
(* sequence); malformed events, lines without the "data: " prefix and      *)
(* [DONE] events contribute nothing.                                       *)
(***************************************************************************)
C8_ConcatOfWellFormed ==
    status_code = 200 /\ StreamOver =>
        Concat(yielded) = Concat(WireFragments(FirstDone - 1))

(***************************************************************************)
(* C9  A "data: " line whose payload fails to decode as JSON, or decodes   *)
(* to a JSON value that lacks the path choices[0].delta.content (non-      *)
(* object payloads, a null or non-list choices, a non-object delta), is    *)
(* skipped silently: it never raises out of stream and the well-formed     *)
(* events after it are still yielded.                                      *)
(***************************************************************************)
C9_MalformedSkipped ==
    status_code = 200 =>
        /\ sstate # "raised"
        /\ sstate = "done" => yielded = WireFragments(FirstDone - 1)

(***************************************************************************)
(* C10  stream yields fragments in the order their events arrive on the    *)
(* wire, and once a line data: [DONE] has been read the sequence ends      *)
(* successfully: no fragment from any later line is ever yielded.          *)
(***************************************************************************)
C10_WireOrderUntilDone ==
    /\ yielded = WireFragments(Min(pos, FirstDone - 1))
    /\ pos <= Min(FirstDone, Len(lines))
    /\ pos = FirstDone => sstate = "done" /\ sexc = "none"

C10_Witness ==
    /\ sstate = "done"
    /\ pos = FirstDone
    /\ yielded = <<(<<"A">>)>>
    /\ \E j \in (pos + 1)..Len(lines) : EventContent(lines[j]) = <<"B">>

(***************************************************************************)
(* C11  When the HTTP status is not a success status, stream fails the     *)
(* whole call with an error and yields no fragment, whatever the body      *)
(* holds; every success status (2xx) leads to the SSE body being parsed.   *)
(***************************************************************************)
\* a success status of HTTP
IsSuccessStatus(code) == code \in 200..299

\* the call was failed on the status, before any line was read
FailedOnStatus == sstate = "raised" /\ sexc = "ValueError" /\ pos = 0

C11_FailsOnNonSuccessOnly ==
    sstate # "created" =>
        /\ ~IsSuccessStatus(status_code) => FailedOnStatus /\ yielded = <<>>
        /\ IsSuccessStatus(status_code) => ~FailedOnStatus

\* what does hold: the call is failed on every status other than 200
C11_FailsOnNon200 ==
    sstate # "created" =>
        /\ status_code # 200 => FailedOnStatus /\ yielded = <<>>
        /\ status_code = 200 => ~FailedOnStatus

(***************************************************************************)
(* Vocabulary of the properties of the pipeline's error handling.          *)
(***************************************************************************)
\* the texts of the model that are not JSON
NonJsonTexts == {<<"Sorry,", "no JSON">>, <<>>}

\* the extraction of a failed normalize stage
EmptyExtraction == JObj([medicines |-> JList(<<>>), overall_confidence |-> JNum(0)])

\* the stage of the i-th client call of the run
StageOfCall(i) == calls[i].stage

(***************************************************************************)
(* C12  When the normalize stage returns text that is not JSON, the        *)
(* pipeline does not raise on it: extraction is {medicines: [],            *)
(* overall_confidence: 0}, the audit request is sent with that extraction, *)
(* and a result carrying it is returned (the client raising no error and   *)
(* the audit stage giving an object or undecodable text).                  *)
(***************************************************************************)
C12_NormalizeDecodeIsolated ==
    Len(calls) >= 3 /\ streamed["normalize"] \in NonJsonTexts =>
        /\ pc = "raised" => pexc \in ClientErrors \/ (Len(calls) = 4 /\ audit.jt # "dict")
        /\ Len(calls) = 4 =>
               /\ extraction = EmptyExtraction
               /\ StageOfCall(4) = "audit"
               /\ calls[4].json = json_dumps(EmptyExtraction)
               /\ calls[4].ocr = streamed["ocr"]
        /\ pc = "done" =>
               /\ result.extraction = EmptyExtraction
               /\ "ambiguity_state" \in DOMAIN result

C12_Witness ==
    /\ pc = "done"
    /\ streamed["normalize"] = <<"Sorry,", "no JSON">>
    /\ streamed["audit"] = <<"a_opts">>
    /\ result.extraction = EmptyExtraction
    /\ result.ambiguity_state = "CLARIFIABLE"

(***************************************************************************)
(* C13  Provided the client raises no transport error, the pipeline        *)
(* returns a result without raising for every text the model may return in *)
(* any stage, including valid JSON that is not the stage's expected object *)
(* (a list for validation, normalize or audit).                            *)
(***************************************************************************)
C13_NeverAborts == pc = "raised" => pexc \in ClientErrors

(***************************************************************************)
(* C14  In every result returned by the pipeline (gate-rejected,           *)
(* decode-failed or successful, for every normalize-stage output),         *)
(* extraction contains a medicines list, never absent.                     *)
(***************************************************************************)
C14_MedicinesNeverAbsent ==
    pc = "done" =>
        /\ "medicines" \in DOMAIN result.extraction.m
        /\ result.extraction.m["medicines"].jt = "list"

\* what does hold: medicines is there on rejection and on a failed decode
C14_MedicinesOnFailure ==
    pc = "done" /\ (Len(calls) = 1 \/ streamed["normalize"] \in NonJsonTexts) =>
        result.extraction.m["medicines"] = JList(<<>>)

(***************************************************************************)
(* C15  An error raised by the client during any of the four stages        *)
(* propagates unmodified out of the pipeline: it is not replaced by a      *)
(* stage fallback, no later stage is started, no partial result is         *)
(* returned, and no stage calls the client more than once in a run.        *)
(***************************************************************************)
C15_NoFallbackNoRetry ==
    /\ \A i, j \in 1..Len(calls) : i # j => StageOfCall(i) # StageOfCall(j)
    /\ pc = "raised" /\ pexc \in ClientErrors =>
           /\ result = NoResult
           /\ Len(calls) = 1 => validation = Unset
           /\ Len(calls) <= 3 => extraction = Unset
           /\ audit = Unset

\* once an exception has left the pipeline nothing more happens in the run
C15_RaisedIsFinal == [][pc # "raised"]_pipeVars

C15_ClientErrorPropagates == []C15_NoFallbackNoRetry /\ C15_RaisedIsFinal

C15_Witness ==
    /\ pc = "raised"
    /\ pexc = "ConnectionError"
    /\ Len(calls) = 3
    /\ response # <<>>
    /\ extraction = Unset

(***************************************************************************)
(* Vocabulary of the properties of a chat turn.                            *)
(***************************************************************************)
\* the fixed disclaimer fragment
DisclaimerFragment ==
    <<"\n\n**Disclaimer:** This is an AI-generated analysis of a prescription.">>

\* the fragments yielded before the last one
FrontFragments == SubSeq(tout, 1, Len(tout) - 1)

\* the history the turn started from, as the request shows it: the messages
\* between the system message and the current query
HistoryBefore == SubSeq(sent, 2, Len(sent) - 1)

\* the turns of a history as the request would show them
Shown(history) ==
    [i \in 1..Len(history) |->
        [role |-> IF history[i].type = "human" THEN "user" ELSE "assistant",
         image |-> FALSE, text |-> history[i].content, json |-> NoJson]]

KnownModes == {"Explain Prescription", "Create Schedule"}

(***************************************************************************)
(* C16  For every chat turn consumed to exhaustion, the fragments produced *)
(* by stream_with_mode are the model's fragments in stream order, each a   *)
(* separate item, followed by exactly one final fragment equal to the      *)
(* disclaimer constant; the disclaimer is emitted also after zero model    *)
(* fragments and never before a model fragment.                            *)
(***************************************************************************)
C16_DisclaimerLast ==
    /\ tpc = "streaming" =>
           /\ Count(DisclaimerFragment, tout) = 0
           /\ Concat(tout) \o twire \in ReplyTexts
           /\ Len(Concat(tout)) = Len(tout)
    /\ tpc \in {"disclaimer", "finished"} =>
           /\ tout # <<>>
           /\ tout[Len(tout)] = DisclaimerFragment
           /\ Count(DisclaimerFragment, tout) = 1
           /\ Concat(FrontFragments) \in ReplyTexts
           /\ Len(Concat(FrontFragments)) = Len(FrontFragments)

C16_Witness ==
    /\ tpc = "finished"
    /\ tout = <<DisclaimerFragment>>

(***************************************************************************)
(* C17  Each completed chat turn appends exactly two turns to the session  *)
(* history, the user's text and then the assistant's reply, whose text is  *)
(* the concatenation of all streamed fragments followed by the disclaimer; *)
(* after n completed turns from an empty history its length is 2n.         *)
(***************************************************************************)
C17_LengthTwicePerTurn ==
    /\ Len(chat_history) = 2 * completed
    /\ \A k \in 1..completed :
           /\ chat_history[2 * k - 1].type = "human"
           /\ chat_history[2 * k].type = "ai"
    /\ PageShown =>
           /\ Cardinality({i \in 1..Len(memory) : memory[i].type = "ai"}) = completed
           /\ Len(memory) = 2 * completed => memory = chat_history

\* the step that completes a turn
C17_AppendOnCompletion ==
    [][tpc = "disclaimer" /\ memory' # memory =>
          /\ memory[Len(memory)] = [type |-> "human", content |-> targs.user_query]
          /\ memory' = Append(memory, [type |-> "ai", content |-> Concat(tout)])
          /\ Concat(tout) = Concat(FrontFragments) \o DisclaimerFragment
          /\ chat_history' = chat_history \o SubSeq(memory', Len(memory) , Len(memory) + 1)
          /\ completed' = completed + 1]_vars

C18_AbandonLeavesHistory ==
    tpc = "closed" =>
        /\ Len(memory) = Len(HistoryBefore)
        /\ Shown(memory) = HistoryBefore

\* what does hold: nothing more is yielded and no reply is appended
C18_AbandonStopsWork ==
    /\ tpc = "closed" =>
           /\ Shown(SubSeq(memory, 1, Len(memory) - 1)) = HistoryBefore
           /\ memory[Len(memory)] = [type |-> "human", content |-> targs.user_query]
    /\ [][tpc = "closed" => UNCHANGED chatVars]_vars

(***************************************************************************)
(* C19  A chat turn requested with a mode outside the closed set of known  *)
(* modes fails before any request is sent and before history is changed;   *)
(* it never falls back to a default system instruction.                    *)
(***************************************************************************)
C19_UnknownModeFails ==
    targs.mode \notin KnownModes /\ tpc \notin {"created", "idle"} =>
        /\ tpc = "raised"
        /\ sent = <<>>

(***************************************************************************)
(* C20  After the human-resolution UI has updated the extraction and set   *)
(* ambiguity_state to CLEAR in place (manual entry while UNRESOLVABLE, or  *)
(* resolving the last ambiguity), the next chat turn uses the updated      *)
(* extraction as its grounding context and does not inject the safety      *)
(* directive; the state is taken from the record, not classified again.    *)
(***************************************************************************)
\* the audit record of the active analysis says CLEAR
RecordSaysClear ==
    /\ "ambiguity_state" \in DOMAIN active_analysis.audit.m
    /\ active_analysis.audit.m["ambiguity_state"] = JStr(<<"CLEAR">>)

C20_CorrectionIsAuthoritative ==
    /\ /\ PageShown
       /\ origin.corrected
       /\ origin.state = "UNRESOLVABLE" \/ Ambiguities(active_analysis.audit) = <<>>
       => RecordSaysClear
    /\ TurnInProgress =>
           /\ sent[1].json = [dumped |-> active_analysis.extraction]
           /\ turn_origin = origin
    /\ TurnInProgress /\ turn_origin.corrected /\ RecordSaysClear =>
           /\ targs.ambiguity_state = "CLEAR"
           /\ ~Carries(sent[1].text)

\* a turn after the last ambiguity was resolved by an option: classifying the
\* record again (confidence 0.5, no ambiguities) would say UNRESOLVABLE
C20_Witness ==
    /\ tpc = "streaming"
    /\ turn_origin = [state |-> "CLARIFIABLE", corrected |-> TRUE]
    /\ Ambiguities(active_analysis.audit) = <<>>
    /\ active_analysis.extraction.m["overall_confidence"] = JNum(50)
    /\ sent[1].json.dumped.m["medicines"].m[1].m["name"] = JStr(<<"A">>)
    /\ ~Carries(sent[1].text)

(***************************************************************************)
(* Vocabulary of the properties of the session's steps.                    *)
(***************************************************************************)
\* the step loads a conversation into the session
LoadStep == uploads' # uploads

\* the step is the New Chat button
NewChatStep == prescription_id' = 0 /\ active_img_hash' = 0

\* the step deletes the active conversation
DeleteStep ==
    /\ prescription_id # 0
    /\ prescription_id' = 0
    /\ active_img_hash' = active_img_hash

(***************************************************************************)
(* C21  Between session resets the history held by the chain is            *)
(* append-only: across chat turns, human resolutions and sidebar actions   *)
(* the history at any moment is a prefix of the history at every later     *)
(* moment, until New Chat or the loading of a conversation clears it.      *)
(***************************************************************************)
C21_AppendOnlyUntilReset ==
    [][NewChatStep \/ LoadStep \/ IsPrefix(memory, memory')]_vars

\* amended: deleting the active conversation clears the history as well
C21_AppendOnlyUntilResetOrDelete ==
    [][NewChatStep \/ LoadStep \/ DeleteStep \/ IsPrefix(memory, memory')]_vars

C21_Witness ==
    /\ tpc = "streaming"
    /\ Len(memory) = 3
    /\ completed = 1
    /\ origin.corrected

(***************************************************************************)
(* C23  In every result returned by analyze_prescription,                  *)
(* audit.safety_flags contains no duplicate string, whatever flags the     *)
(* audit stage output contained and whichever state was produced.          *)
(***************************************************************************)
C23_NoDuplicateFlags ==
    pc = "done" =>
        \A i, j \in 1..Len(SafetyFlags(result.audit)) :
            i # j => SafetyFlags(result.audit)[i] # SafetyFlags(result.audit)[j]

(***************************************************************************)
(* C24  Constructing the client, and hence a VisionChain, without an API   *)
(* key fails immediately: no request is posted before the failure and no   *)
(* client exists on which stream could be called.                          *)
(***************************************************************************)
NoApiKey == api_key = NoEnv \/ api_key = EnvStr(<<>>)

C24_NoKeyNoClient ==
    NoApiKey =>
        /\ client \in {"unconstructed", "failed"}
        /\ ~posted
        /\ sstate = "created"

C24_Witness == api_key = EnvStr(<<>>) /\ client = "failed"

(***************************************************************************)
(* C25  The message set sent for a chat turn is, in order: one system      *)
(* message (mode instruction and the JSON rendering of the extraction),    *)
(* every prior turn of the history in its order with its role, then the    *)
(* new user turn (image and text) as the last message; the new user text   *)
(* appears exactly once and no message of the current turn appears among   *)
(* the prior turns.                                                        *)
(***************************************************************************)
\* the step sends the request of a turn
RequestStep == tpc # "streaming" /\ tpc' = "streaming"

\* the positions of the request whose text is the text
WithText(msgs, text) == {i \in 1..Len(msgs) : msgs[i].text = text}

\* the request made of the history as it was before the turn
InOrder(msgs, args, before) ==
    /\ Len(msgs) = Len(before) + 2
    /\ SystemMessages(msgs) = {1}
    /\ IsPrefix(get_mode_prompt(args.mode), msgs[1].text)
    /\ msgs[1].json = json_dumps(args.extraction_context)
    /\ SubSeq(msgs, 2, Len(msgs) - 1) = Shown(before)
    /\ msgs[Len(msgs)] =
           [role |-> "user", image |-> TRUE, text |-> args.user_query, json |-> NoJson]
    /\ \A i \in 1..Len(msgs) - 1 : ~msgs[i].image

C25_MessageSetTextOnce ==
    [][RequestStep =>
          /\ InOrder(sent', targs', memory)
          /\ WithText(sent', targs'.user_query) = {Len(sent')}]_vars

\* amended: the new user turn appears once; its text may be that of an earlier turn
C25_MessageSetOrder == [][RequestStep => InOrder(sent', targs', memory)]_vars

C25_Witness ==
    /\ tpc = "streaming"
    /\ Len(sent) = 4
    /\ sent[2].text = sent[4].text
    /\ sent[3].role = "assistant"

(***************************************************************************)
(* C26  Stage fallbacks follow the fixed table: validation text that fails *)
(* to decode becomes {is_prescription: false, confidence: 0, reason:       *)
(* "Classification failed"} and so always ends in gate rejection; audit    *)
(* text that fails to decode becomes {ambiguities: [], safety_flags: [],   *)
(* is_safe_to_display: false}, to which the validation record is attached  *)
(* before classification; OCR text is never JSON-decoded and is returned   *)
(* as raw_ocr exactly as collected.                                        *)
(***************************************************************************)
ValidationOfTable ==
    JObj([is_prescription |-> JBool(FALSE), confidence |-> JNum(0),
          reason |-> JStr(<<"Classification failed">>)])

FixedFlags ==
    <<JStr(<<"Handwriting too unclear for safe AI interpretation">>),
      JStr(<<"No medically safe correction candidates available">>)>>

\* the audit record of the table with the validation record attached
AuditOfTable(a, v, state) ==
    /\ DOMAIN a.m = {"ambiguities", "safety_flags", "is_safe_to_display", "validation"}
    /\ a.m["ambiguities"] = JList(<<>>)
    /\ a.m["is_safe_to_display"] = JBool(FALSE)
    /\ a.m["validation"] = v
    /\ a.m["safety_flags"] = JList(IF state = "UNRESOLVABLE" THEN FixedFlags ELSE <<>>)

C26_FallbackTable ==
    /\ streamed["validation"] \in NonJsonTexts /\ pc \notin {"start", "validation"} =>
           \/ pc = "raised" /\ pexc \in ClientErrors /\ validation = Unset
           \/ /\ pc = "done"
              /\ validation = ValidationOfTable
              /\ result.validation = ValidationOfTable
              /\ RejectionShape(result)
              /\ Len(calls) = 1
    /\ streamed["audit"] \in NonJsonTexts /\ pc = "done" /\ Len(calls) = 4 =>
           /\ result.ambiguity_state \in {"CLEAR", "UNRESOLVABLE"}
           /\ AuditOfTable(result.audit, validation, result.ambiguity_state)
           /\ result.validation = validation
    /\ Len(calls) >= 3 =>
           /\ raw_ocr = streamed["ocr"]
           /\ calls[3].ocr = streamed["ocr"]
    /\ pc = "done" /\ Len(calls) = 4 => result.raw_ocr = streamed["ocr"]

C26_Witness ==
    /\ pc = "done"
    /\ streamed["ocr"] = <<" ", "<fence>json", "e_ok", "<fence>">>
    /\ streamed["audit"] = <<"Sorry,", "no JSON">>
    /\ result.ambiguity_state = "UNRESOLVABLE"
    /\ result.raw_ocr = streamed["ocr"]

(***************************************************************************)
(* C27  When a human resolution in the ambiguity resolver (confirming an   *)
(* option or choosing None of these) removes an ambiguity, exactly that    *)
(* one ambiguity is removed from audit.ambiguities; ambiguity_state is     *)
(* downgraded to CLEAR when no ambiguities remain afterwards and is left   *)
(* unchanged while some remain.                                            *)
(***************************************************************************)
\* the step is a resolution in the ambiguity resolver
ResolverStep ==
    /\ ~LoadStep
    /\ PageShown
    /\ Ambiguities(active_analysis'.audit) # Ambiguities(active_analysis.audit)

\* the sequence without its i-th entry
Without(seq, i) == [k \in 1..Len(seq) - 1 |-> IF k < i THEN seq[k] ELSE seq[k + 1]]

\* the state the audit record holds
RecordState(a) == a.m["ambiguity_state"].s[1]

C27_ResolverRemovesOne ==
    [][ResolverStep =>
          LET before == Ambiguities(active_analysis.audit)
              after == Ambiguities(active_analysis'.audit)
          IN  /\ \E i \in 1..Len(before) : after = Without(before, i)
              /\ RecordState(active_analysis'.audit) =
                     IF after = <<>> THEN "CLEAR" ELSE RecordState(active_analysis.audit)
              /\ SafetyFlags(active_analysis'.audit) = SafetyFlags(active_analysis.audit)
              /\ origin'.corrected]_vars

C27_Witness ==
    /\ PageShown
    /\ origin = [state |-> "CLARIFIABLE", corrected |-> TRUE]
    /\ Len(Ambiguities(active_analysis.audit)) = 1
    /\ RecordState(active_analysis.audit) = "CLARIFIABLE"

(***************************************************************************)
(* C28  Provided every model stream is finite, every run of                *)
(* analyze_prescription terminates, with a result or with a propagated     *)
(* client error, after at most four client calls: exactly one when the     *)
(* gate rejects and exactly four when it returns a classified result.      *)
(***************************************************************************)
C28_EndsWithResultOrClientError ==
    /\ Len(calls) <= 4
    /\ pc = "done" /\ ~Classified => Len(calls) = 1 /\ RejectionShape(result)
    /\ Classified => Len(calls) = 4
    /\ pc = "raised" => pexc \in ClientErrors /\ Len(calls) \in 1..4

\* what holds of it: the numbers of calls
C28_CallCounts ==
    /\ Len(calls) <= 4
    /\ pc = "done" /\ ~Classified => Len(calls) = 1 /\ RejectionShape(result)
    /\ Classified => Len(calls) = 4
    /\ pc = "raised" => Len(calls) \in 1..4

(***************************************************************************)
(* C29  Whenever no chat turn is in progress, the session history is a     *)
(* strict alternation user, assistant, user, assistant with equal counts   *)
(* of both roles; this also holds after a turn whose stream failed with a  *)
(* client error or was abandoned by the caller.                            *)
(***************************************************************************)
Alternates(history) ==
    /\ Len(history) % 2 = 0
    /\ \A i \in 1..Len(history) :
           history[i].type = IF i % 2 = 1 THEN "human" ELSE "ai"

C29_StrictAlternation == ~TurnInProgress => Alternates(memory)

\* what holds of it: the alternation after the turns consumed to the end
C29_AlternationWhenFinished == tpc = "finished" => Alternates(memory)

(***************************************************************************)
(* C30  After any sequence of uploads, conversation loads, completed chat  *)
(* turns, New Chat and conversation deletions, the page's chat_history and *)
(* the chain's memory hold the same ordered sequence of turns, and the     *)
(* chain's prescription_id equals the session's whenever the latter is     *)
(* set.                                                                    *)
(***************************************************************************)
\* the step completes a chat turn that began with the two in agreement
CompletedStep ==
    /\ completed' = completed + 1
    /\ memory = Append(chat_history, HumanMessage(targs.user_query))

PidAgree == prescription_id # 0 => chain_prescription_id = prescription_id

C30_ChatHistoryMirrorsMemory ==
    [][LoadStep \/ NewChatStep \/ DeleteStep \/ CompletedStep =>
          chat_history' = memory' /\ PidAgree']_vars

\* what holds of it: every listed step but the deletion
C30_MirrorsUnlessDeleted ==
    [][/\ LoadStep \/ NewChatStep \/ CompletedStep => chat_history' = memory'
       /\ PidAgree']_vars

(***************************************************************************)
(* C22  Two independent sessions share no mutable pipeline, classifier or  *)
(* history state: for any interleaving of pipeline runs and chat turns of  *)
(* two sessions, each session's history, analysis result and               *)
(* ambiguity_state equal what they would be if that session had run alone. *)
(***************************************************************************)
C22_SessionsIsolated ==
    \A s \in SessionIds :
        /\ sessions[s].memory # 0 => histories[sessions[s].memory] = sessions[s].own
        /\ sessions[s].analysis # 0 =>
               /\ analyses[sessions[s].analysis] = sessions[s].alone
               /\ PageAmbiguityState(analyses[sessions[s].analysis]) =
                      PageAmbiguityState(sessions[s].alone)
        /\ \A t \in SessionIds \ {s} :
               /\ sessions[s].memory # 0 => sessions[t].memory # sessions[s].memory
               /\ sessions[s].analysis # 0 => sessions[t].analysis # sessions[s].analysis

C22_Witness ==
    /\ sessions["a"].turn = "streaming"
    /\ Len(sessions["a"].own) = 3
    /\ sessions["b"].turn = "streaming"
    /\ Len(sessions["b"].own) = 1
    /\ PageAmbiguityState(analyses[sessions["a"].analysis]) = "CLARIFIABLE"
    /\ PageAmbiguityState(analyses[sessions["b"].analysis]) = "CLEAR"

(***************************************************************************)
(* C32  A non-rejected result is classified CLEAR only when the normalize  *)
(* stage output carries an overall_confidence of at least 0.70; an         *)
(* extraction that decodes successfully but has no overall_confidence      *)
(* field is never classified CLEAR.                                        *)
(***************************************************************************)
C32_ClearNeedsStatedConfidence ==
    Classified /\ result.ambiguity_state = "CLEAR" =>
        /\ "overall_confidence" \in DOMAIN result.extraction.m
        /\ result.extraction.m["overall_confidence"].n >= 70

\* what holds of it: a stated confidence below 0.70 is never CLEAR
C32_StatedLowIsNotClear ==
    /\ Classified
    /\ "overall_confidence" \in DOMAIN result.extraction.m
    /\ result.extraction.m["overall_confidence"].n < 70
    => result.ambiguity_state # "CLEAR"

(***************************************************************************)
(* C33  In every reachable session state, if the session's prescription_id *)
(* is unset then active_img_hash is unset too, so an image uploaded while  *)
(* no conversation is active is never skipped as already processed.        *)
(***************************************************************************)
C33_NoHashWithoutPrescription == prescription_id = 0 => active_img_hash = 0

\* what holds of it: New Chat and a load leave the two set or unset together
C33_HashFollowsExceptOnDelete ==
    [][~DeleteStep /\ (prescription_id = 0 <=> active_img_hash = 0) =>
          (prescription_id' = 0 <=> active_img_hash' = 0)]_vars

(***************************************************************************)
(* C34  In every reachable session state in which a human-resolution       *)
(* operation has set the audit's ambiguity_state to CLEAR, the audit's     *)
(* ambiguities list is empty, including after manual medicine entry from   *)
(* the UNRESOLVABLE card.                                                  *)
(***************************************************************************)
C34_ClearedMeansNoneLeft ==
    origin.corrected /\ origin.state # "CLEAR" /\ RecordSaysClear =>
        Ambiguities(active_analysis.audit) = <<>>

\* what holds of it: the resolver sets CLEAR only on an empty list
C34_ResolverClearsOnEmpty ==
    [][ResolverStep /\ RecordState(active_analysis.audit) # "CLEAR"
          /\ RecordState(active_analysis'.audit) = "CLEAR" =>
              Ambiguities(active_analysis'.audit) = <<>>]_vars

(***************************************************************************)
(* C31  After every human-resolution operation (confirming an option,      *)
(* choosing None of these, or manual medicine entry), the extraction and   *)
(* audit persisted for the prescription equal the in-session extraction    *)
(* and audit, including the ambiguities list and ambiguity_state.          *)
(***************************************************************************)
InSession == [extraction |-> active_analysis.extraction, audit |-> active_analysis.audit]

C31_StoredEqualsInSession == PageShown /\ origin.corrected => stored = InSession

\* what holds of it: the row written by a manual entry
C31_ManualEntryStored ==
    [][/\ PageShown
       /\ ~LoadStep
       /\ PageAmbiguityState(active_analysis) = "UNRESOLVABLE"
       /\ active_analysis' # active_analysis
       => stored' = InSession']_vars

(***************************************************************************)
(* C35  A pipeline run leaves the session's conversation history and       *)
(* prescription_id unchanged, whatever the stage outputs are and whether   *)
(* it returns a result, a rejection or a propagated error; only chat turns *)
(* append to history.                                                      *)
(***************************************************************************)
C35_RunLeavesSession ==
    [][/\ memory' = memory
       /\ chat_history' = chat_history
       /\ prescription_id' = prescription_id
       /\ chain_prescription_id' = chain_prescription_id]_vars

C35_Witness ==
    /\ pc \in {"done", "raised"}
    /\ Len(calls) = 4
    /\ Len(memory) = 2
    /\ prescription_id = 1

====
